---- MODULE Spec2Model ----
(***************************************************************************)
(* helix-dadbod: the connection / tunnel orchestration of                  *)
(* ConnectionManager (src/src/connection.rs), TunnelManager and            *)
(* PortAllocator (src/src/tunnel.rs), and the known_hosts verification of  *)
(* src/src/known_hosts.rs.                                                 *)
(*                                                                         *)
(* Callers (Procs) invoke the ConnectionManager's operations.  Every       *)
(* operation first takes the active_connections mutex; an operation's      *)
(* await points are its steps.  The forwarding tasks spawned by            *)
(* create_tunnel and the other processes of the machine (which bind and    *)
(* release loopback ports) run concurrently with the callers.              *)
(***************************************************************************)
EXTENDS Integers, Sequences, FiniteSets, TLC

\* ------------------------------------------------------------------ bounds
\* database sessions of one name that may be open at once
MaxSessions == 2
\* accept loops of one name that may run or have forwarding tasks left at once
MaxTasks == 2
\* per-connection forwarding tasks that may exist at once
MaxFwd == 2
\* aborted accept loops that may await their drop at once
MaxClosing == 1
\* lines of a known_hosts file
MaxLines == 2
\* dials per name the history counts since the name's last close
MaxDials == 2
\* the lowest ports of the range that other processes may bind
MaxExternal == 1
\* ports of the range that other processes leave free on a crowded machine
MaxOpen == 1
\* characters of a host name and of a pattern given to pattern_match
MaxText == 3
\* comma-separated patterns of a host field
MaxPieces == 2
\* characters of a text given to strip_sql_comments
MaxSql == 6
\* lines of an ssh config file
MaxConfigLines == 4

\* --------------------------------------------------------------- constants
TUNNEL_PORT_START == 7001
TUNNEL_PORT_END == 7020
Ports == TUNNEL_PORT_START..TUNNEL_PORT_END
ExternalPorts == TUNNEL_PORT_START..(TUNNEL_PORT_START + MaxExternal - 1)

FwdIds == 1..MaxFwd

Procs == {1, 2}
NoProc == 0

\* The catalog of connection descriptors (SqlConfig.connections): two tunnelled
\* postgres connections, a direct one and one of an unsupported engine.  "u" is
\* a name the catalog does not hold.
Config ==
    [a |-> [db_type |-> "postgres", ssh_tunnel |-> TRUE],
     b |-> [db_type |-> "postgres", ssh_tunnel |-> TRUE],
     d |-> [db_type |-> "postgresql", ssh_tunnel |-> FALSE],
     m |-> [db_type |-> "mysql", ssh_tunnel |-> FALSE]]
Names == DOMAIN Config \cup {"u"}

\* A database session (Arc<Client>) is named by its connection name and a
\* number, an accept-loop task (JoinHandle) likewise.
SessionIds == 1..MaxSessions
TaskIds == Names \X (1..MaxTasks)

\* SqlConfig::get_connection
get_connection(name) == IF name \in DOMAIN Config THEN {Config[name]} ELSE {}

\* create_connection's match on the engine type
Supported(db_type) == db_type \in {"postgres", "postgresql"}

\* HashMap helpers
Insert(map, k, v) == [x \in DOMAIN map \cup {k} |-> IF x = k THEN v ELSE map[x]]
Remove(map, k) == [x \in DOMAIN map \ {k} |-> map[x]]
EmptyMap == [x \in {} |-> 0]

\* ------------------------------------------------------------ known_hosts
\* Text is a sequence of characters.
IsSpace(c) == c \in {" ", "\t", "\r", "\n"}

RECURSIVE trim_start(_)
trim_start(s) == IF s # <<>> /\ IsSpace(Head(s)) THEN trim_start(Tail(s)) ELSE s

RECURSIVE trim_end(_)
trim_end(s) ==
    IF s # <<>> /\ IsSpace(s[Len(s)]) THEN trim_end(SubSeq(s, 1, Len(s) - 1)) ELSE s

\* str::trim
trim(s) == trim_end(trim_start(s))

\* str::starts_with
starts_with(s, prefix) == Len(s) >= Len(prefix) /\ SubSeq(s, 1, Len(prefix)) = prefix

\* str::contains(char)
contains(s, c) == \E i \in 1..Len(s) : s[i] = c

\* str::split(char): the pieces between the separators, empty ones included.
RECURSIVE split_from(_, _, _)
split_from(s, sep, piece) ==
    IF s = <<>> THEN <<piece>>
    ELSE IF Head(s) = sep THEN <<piece>> \o split_from(Tail(s), sep, <<>>)
    ELSE split_from(Tail(s), sep, Append(piece, Head(s)))

split(s, sep) == split_from(s, sep, <<>>)

\* str::split_whitespace: the non-empty pieces between runs of whitespace.
RECURSIVE fields_from(_, _)
fields_from(s, piece) ==
    IF s = <<>> THEN (IF piece = <<>> THEN <<>> ELSE <<piece>>)
    ELSE IF IsSpace(Head(s))
    THEN (IF piece = <<>> THEN <<>> ELSE <<piece>>) \o fields_from(Tail(s), <<>>)
    ELSE fields_from(Tail(s), Append(piece, Head(s)))

split_whitespace(s) == fields_from(s, <<>>)

\* str::lines: the pieces between line feeds, without a last empty piece and
\* without a carriage return that ends a piece.
lines(s) ==
    LET ps == split(s, "\n")
        qs == IF ps[Len(ps)] = <<>> THEN SubSeq(ps, 1, Len(ps) - 1) ELSE ps
    IN  [i \in 1..Len(qs) |->
            IF qs[i] # <<>> /\ qs[i][Len(qs[i])] = "\r"
            THEN SubSeq(qs[i], 1, Len(qs[i]) - 1) ELSE qs[i]]

\* format!("{}", port) for the ports of the model.
PortText(port) == IF port = 22 THEN <<"2", "2">> ELSE <<"7">>

\* A lookup string that never carries the port.
host_pattern_bare(hostname, port) == hostname

\* verify_host_key's host_pattern: the host name, or "[host]:port" when the
\* port is not 22.
host_pattern(hostname, port) ==
    IF port = 22 THEN hostname ELSE <<"[">> \o hostname \o <<"]", ":">> \o PortText(port)

\* pattern_match: the loop over the two peekable iterators (Walk), and the
\* inner loop after a '*' that is not the pattern's last character (Star).
RECURSIVE pattern_match(_, _), Walk(_, _), Star(_, _)
pattern_match(hostname, pattern) ==
    IF pattern = <<"*">> THEN TRUE
    ELSE IF ~contains(pattern, "*") /\ ~contains(pattern, "?") THEN hostname = pattern
    ELSE Walk(hostname, pattern)

Walk(h, p) ==
    IF p = <<>> THEN h = <<>>
    ELSE IF Head(p) = "*" THEN (IF Tail(p) = <<>> THEN TRUE ELSE Star(h, Tail(p)))
    ELSE IF Head(p) = "?" THEN (IF h = <<>> THEN FALSE ELSE Walk(Tail(h), Tail(p)))
    ELSE IF h # <<>> /\ Head(h) = Head(p) THEN Walk(Tail(h), Tail(p))
    ELSE FALSE

Star(h, p) ==
    IF h = <<>> THEN FALSE
    ELSE IF pattern_match(h, p) THEN TRUE
    ELSE Star(Tail(h), p)

\* check_plaintext_host: some comma-separated piece equals or matches.
check_plaintext_host(hostname, pattern) ==
    \E i \in 1..Len(split(pattern, ",")) :
        \/ split(pattern, ",")[i] = hostname
        \/ pattern_match(hostname, split(pattern, ",")[i])

\* The base64 alphabet among the characters of the model; STANDARD.decode
\* fails on any other character.
Base64Chars == {"K", "L", "h", "g", "t", "s", "1", "2", "7", "="}
base64_ok(text) == \A i \in 1..Len(text) : text[i] \in Base64Chars

\* base64(HMAC-SHA1(salt, message)): a text that differs for different salts
\* and messages and holds no '|' and no whitespace.
hmac_base64(salt, message) == <<"=">> \o salt \o <<"=">> \o message

\* A check that takes any marker for the hash scheme.
check_hashed_host_any_marker(hostname, hashed_entry) ==
    LET parts == split(hashed_entry, "|") IN
    IF Len(parts) # 4 \/ parts[1] # <<>> THEN FALSE
    ELSE IF ~base64_ok(parts[3]) THEN FALSE
    ELSE hmac_base64(parts[3], hostname) = parts[4]

\* check_hashed_host: FALSE also where the code returns Err (a salt that does
\* not decode), which verify_host_key turns into "no match".
check_hashed_host(hostname, hashed_entry) ==
    LET parts == split(hashed_entry, "|") IN
    IF Len(parts) # 4 \/ parts[1] # <<>> \/ parts[2] # <<"1">> THEN FALSE
    ELSE IF ~base64_ok(parts[3]) THEN FALSE
    ELSE hmac_base64(parts[3], hostname) = parts[4]

\* The keys of the model, and russh_keys' wire text of each
\* (PublicKeyBase64::public_key_base64).
Keys == {"K", "L"}
public_key_base64(key) == <<key>>
\* PublicKey::name: both keys of the model are of the algorithm "t".
key_name(key) == <<"t">>

\* parse_public_key: the set holding the key the text decodes and parses to,
\* empty when either fails.  The key_type field takes no part; bytes after
\* the key's own are not read.
parse_public_key(key_type, key_data) ==
    IF base64_ok(key_data) /\ key_data # <<>> /\ Head(key_data) \in Keys
    THEN {Head(key_data)} ELSE {}

\* keys_match
keys_match(key1, key2) == public_key_base64(key1) = public_key_base64(key2)

\* One iteration of verify_host_key's loop: TRUE when the line makes the
\* function return Ok(true), FALSE when the loop goes on.
line_verifies(raw, pattern, server_key) ==
    LET line == trim(raw)
        parts == split_whitespace(line)
    IN  IF line = <<>> \/ starts_with(line, <<"#">>) THEN FALSE
        ELSE IF Len(parts) < 3 THEN FALSE
        ELSE IF ~(IF starts_with(parts[1], <<"|", "1", "|">>)
                  THEN check_hashed_host(pattern, parts[1])
                  ELSE check_plaintext_host(pattern, parts[1]))
        THEN FALSE
        ELSE \E known_key \in parse_public_key(parts[2], parts[3]) :
                keys_match(server_key, known_key)

\* A scan in which the first host-matching line decides.
RECURSIVE scan_first_host(_, _, _)
scan_first_host(ls, pattern, server_key) ==
    IF ls = <<>> THEN FALSE
    ELSE IF line_verifies(Head(ls), pattern, server_key) THEN TRUE
    ELSE IF \E k \in Keys : line_verifies(Head(ls), pattern, k) THEN FALSE
    ELSE scan_first_host(Tail(ls), pattern, server_key)

\* A scan that gives up at the first line it cannot read as an entry.
RECURSIVE scan_strict(_, _, _)
scan_strict(ls, pattern, server_key) ==
    IF ls = <<>> THEN FALSE
    ELSE IF line_verifies(Head(ls), pattern, server_key) THEN TRUE
    ELSE IF LET parts == split_whitespace(trim(Head(ls))) IN
              \/ Len(parts) < 3
              \/ parse_public_key(parts[2], parts[3]) = {}
              \/ starts_with(parts[1], <<"|", "1", "|">>)
                    /\ Len(split(parts[1], "|")) # 4
    THEN FALSE
    ELSE scan_strict(Tail(ls), pattern, server_key)

\* verify_host_key's loop over contents.lines().
RECURSIVE scan(_, _, _)
scan(ls, pattern, server_key) ==
    IF ls = <<>> THEN FALSE
    ELSE IF line_verifies(Head(ls), pattern, server_key) THEN TRUE
    ELSE scan(Tail(ls), pattern, server_key)

\* verify_host_key: "true" and "false" for Ok(true) and Ok(false), "error"
\* for Err (HOME unset, or a store that cannot be read as text).
verify_host_key(file, contents, hostname, port, server_key) ==
    IF file = "nohome" THEN "error"
    ELSE IF file = "missing" THEN "false"
    ELSE IF file = "unreadable" THEN "error"
    ELSE IF scan(lines(contents), host_pattern(hostname, port), server_key) THEN "true"
    ELSE "false"

\* The lines a trust store of the model is made of.
\* "h t K": host h, key K
LinePlainK == <<"h", " ", "t", " ", "K">>
\* "h t L": host h, key L
LinePlainL == <<"h", " ", "t", " ", "L">>
\* "g t K": another host
LineOtherHost == <<"g", " ", "t", " ", "K">>
\* "  h \tt  K \r": blanks around the fields, a carriage return at the end
LinePadded == <<" ", " ", "h", " ", "\t", "t", " ", " ", "K", " ", "\r">>
\* "# h t K": a comment
LineComment == <<"#", " ", "h", " ", "t", " ", "K">>
\* " ": a blank line
LineBlank == <<" ">>
\* "h K": fewer than three fields
LineTwoFields == <<"h", " ", "K">>
\* "g,h t L": a comma-separated host list
LineList == <<"g", ",", "h", " ", "t", " ", "L">>
\* "[*]:7,g? t K": wildcard hosts
LineGlob == <<"[", "*", "]", ":", "7", ",", "g", "?", " ", "t", " ", "K">>
\* "[h]:7 t L": host h on port 7
LineBracket == <<"[", "h", "]", ":", "7", " ", "t", " ", "L">>
\* "h t *": a key that is not base64
LineBadKey == <<"h", " ", "t", " ", "*">>
\* "h t gK": base64 that is not a key
LineNotAKey == <<"h", " ", "t", " ", "g", "K">>
\* "h t KL": key K followed by further bytes
LineLongKey == <<"h", " ", "t", " ", "K", "L">>
\* "|1|*|=s=h t K": a hashed host whose salt does not decode
LineBadSalt == <<"|", "1", "|", "*", "|", "=", "s", "=", "h", " ", "t", " ", "K">>
\* "|1|s t K": a hashed host without its hash
LineShortHash == <<"|", "1", "|", "s", " ", "t", " ", "K">>
\* "h u K": host h, key K under the name of another algorithm
LineWrongType == <<"h", " ", "u", " ", "K">>
\* a hashed entry of host h, key K
LineHashed ==
    <<"|", "1", "|", "s", "|">> \o hmac_base64(<<"s">>, <<"h">>) \o <<" ", "t", " ", "K">>
\* a hashed entry of host h on port 7, key L
LineHashedPort ==
    <<"|", "1", "|", "s", "|">> \o hmac_base64(<<"s">>, host_pattern(<<"h">>, 7))
        \o <<" ", "t", " ", "L">>

StoreLines ==
    {LinePlainK, LinePlainL, LineOtherHost, LinePadded, LineComment, LineBlank, LineTwoFields, LineList, LineGlob, LineBracket, LineBadKey, LineNotAKey, LineLongKey, LineBadSalt,
     LineHashed, LineHashedPort, LineShortHash, LineWrongType}

\* The text of a store: its lines, each ended by a line feed.
RECURSIVE StoreText(_)
StoreText(ls) == IF ls = <<>> THEN <<>> ELSE Head(ls) \o <<"\n">> \o StoreText(Tail(ls))

Stores == UNION {[1..k -> StoreLines] : k \in 0..MaxLines}

Hostnames == {<<"h">>, <<"g">>}
SshPorts == {22, 7}

\* A call of verify_host_key: what it is given, what it finds in
\* ~/.ssh/known_hosts, what it has returned ("none" before it returns), and
\* the line check_server_key has logged about it ("none" before it does).
NoVerify ==
    [file |-> "missing", contents |-> <<>>, hostname |-> <<"h">>, port |-> 22,
     key |-> "K", result |-> "none", log |-> "none"]
VerifyCalls ==
    {[file |-> f, contents |-> IF f = "text" THEN StoreText(ls) ELSE <<>>,
      hostname |-> h, port |-> q, key |-> k, result |-> "none", log |-> "none"] :
        f \in {"nohome", "missing", "unreadable", "text"}, ls \in Stores,
        h \in Hostnames, q \in SshPorts, k \in Keys}

\* ------------------------------------------------------------ SQL comments
\* strip_sql_comments' push of a finished line: trimmed, after a line feed
\* when the result is not empty, dropped when blank.
push_line(result, current_line) ==
    LET trimmed == trim(current_line) IN
    IF trimmed = <<>> THEN result
    ELSE IF result # <<>> THEN result \o <<"\n">> \o trimmed
    ELSE trimmed

\* strip_sql_comments' loop over the characters; mode is "multi" inside
\* /* */, "single" after --, "code" elsewhere.
RECURSIVE strip_scan(_, _, _, _)
strip_scan(sql, mode, current_line, result) ==
    IF sql = <<>> THEN push_line(result, current_line)
    ELSE LET ch == Head(sql)
             rest == Tail(sql)
             peek == IF rest = <<>> THEN "" ELSE Head(rest)
         IN  IF mode = "multi"
             THEN IF ch = "*" /\ peek = "/"
                  THEN strip_scan(Tail(rest), "code", current_line, result)
                  ELSE strip_scan(rest, "multi", current_line, result)
             ELSE IF mode = "single"
             THEN IF ch = "\n"
                  THEN strip_scan(rest, "code", <<>>, push_line(result, current_line))
                  ELSE strip_scan(rest, "single", current_line, result)
             ELSE IF ch = "-" /\ peek = "-"
             THEN strip_scan(Tail(rest), "single", current_line, result)
             ELSE IF ch = "/" /\ peek = "*"
             THEN strip_scan(Tail(rest), "multi", current_line, result)
             ELSE IF ch = "\n"
             THEN strip_scan(rest, "code", <<>>, push_line(result, current_line))
             ELSE strip_scan(rest, "code", Append(current_line, ch), result)

\* strip_sql_comments' last loop: a run of spaces becomes one space.
RECURSIVE normalize(_, _)
normalize(text, last_was_space) ==
    IF text = <<>> THEN <<>>
    ELSE IF Head(text) = " "
    THEN (IF last_was_space THEN <<>> ELSE <<" ">>) \o normalize(Tail(text), TRUE)
    ELSE <<Head(text)>> \o normalize(Tail(text), FALSE)

\* ConnectionManager::strip_sql_comments
strip_sql_comments(sql) == normalize(strip_scan(sql, "code", <<>>, <<>>), FALSE)

\* ----------------------------------------------------------------- ssh_config
\* str::splitn(2, char::is_whitespace): the text before the first whitespace
\* character and the text after it, or the text alone when it has none.
RECURSIVE splitn_from(_, _)
splitn_from(s, piece) ==
    IF s = <<>> THEN <<piece>>
    ELSE IF IsSpace(Head(s)) THEN <<piece, Tail(s)>>
    ELSE splitn_from(Tail(s), Append(piece, Head(s)))

splitn(s) == splitn_from(s, <<>>)

\* The keywords parse_host_from_config knows.
KeyHost == <<"H", "o", "s", "t">>
KeyHostName == <<"H", "o", "s", "t", "N", "a", "m", "e">>
KeyHostname == <<"H", "o", "s", "t", "n", "a", "m", "e">>
KeyPort == <<"P", "o", "r", "t">>
KeyUser == <<"U", "s", "e", "r">>
KeyIdentityFile == <<"I", "d", "e", "n", "t", "i", "t", "y", "F", "i", "l", "e">>

\* parse_host_from_config's loop over content.lines(): current_host is <<>>
\* for None; a Host line after the target's block breaks the loop, another
\* Host line starts a block and clears the map, any other line of the
\* target's block is inserted under its first word.
RECURSIVE config_scan(_, _, _, _)
config_scan(ls, target_host, current_host, host_config) ==
    IF ls = <<>> THEN [current_host |-> current_host, host_config |-> host_config]
    ELSE LET trimmed == trim(Head(ls))
             parts == splitn(trimmed)
         IN  IF trimmed = <<>> \/ starts_with(trimmed, <<"#">>) \/ Len(parts) < 2
             THEN config_scan(Tail(ls), target_host, current_host, host_config)
             ELSE IF parts[1] = KeyHost
             THEN IF current_host = <<target_host>>
                  THEN [current_host |-> current_host, host_config |-> host_config]
                  ELSE config_scan(Tail(ls), target_host, <<trim(parts[2])>>, EmptyMap)
             ELSE IF current_host = <<target_host>>
             THEN config_scan(Tail(ls), target_host, current_host,
                              Insert(host_config, parts[1], trim(parts[2])))
             ELSE config_scan(Tail(ls), target_host, current_host, host_config)

\* str::parse::<u16> for the port texts of the model; empty when it fails.
parse_u16(text) == {q \in {22, 7} : PortText(q) = text}

\* expand_tilde, HOME being /r.
expand_tilde(path) ==
    IF starts_with(path, <<"~", "/">>)
    THEN <<"/", "r", "/">> \o SubSeq(path, 3, Len(path))
    ELSE path

\* What parse_host_from_config returns: ok is FALSE for Err; user and
\* identity_file are the Options, <<>> or one text.
NoHost == [ok |-> FALSE, hostname |-> <<>>, port |-> 0, user |-> <<>>, identity_file |-> <<>>]
parse_host_from_config(content, target_host) ==
    LET found == config_scan(lines(content), target_host, <<>>, EmptyMap)
        host_config == found.host_config
    IN  IF found.current_host # <<target_host>> THEN NoHost
        ELSE IF {KeyHostName, KeyHostname} \cap DOMAIN host_config = {} THEN NoHost
        ELSE [ok |-> TRUE,
              hostname |-> IF KeyHostName \in DOMAIN host_config
                           THEN host_config[KeyHostName] ELSE host_config[KeyHostname],
              port |-> IF KeyPort \in DOMAIN host_config
                          /\ parse_u16(host_config[KeyPort]) # {}
                       THEN CHOOSE q \in parse_u16(host_config[KeyPort]) : TRUE
                       ELSE 22,
              user |-> IF KeyUser \in DOMAIN host_config
                       THEN <<host_config[KeyUser]>> ELSE <<>>,
              identity_file |-> IF KeyIdentityFile \in DOMAIN host_config
                                THEN <<expand_tilde(host_config[KeyIdentityFile])>>
                                ELSE <<>>]

\* ------------------------------------------------------------ meta-commands
\* The shorthand tokens MetaCommand::parse knows, without their backslash.
MetaNames ==
    {<<"d">>, <<"d", "t">>, <<"d", "v">>, <<"d", "i">>, <<"d", "s">>, <<"d", "f">>,
     <<"d", "n">>, <<"l">>, <<"d", "u">>}

\* MetaCommand::parse: the set holding the command, empty for None.  param is
\* the Option: <<>> or one text; \l and \du carry none.
parse(sql) ==
    LET trimmed == trim(sql) IN
    IF ~starts_with(trimmed, <<"\\">>) THEN {}
    ELSE LET parts == split_whitespace(Tail(trimmed)) IN
         IF parts = <<>> \/ parts[1] \notin MetaNames THEN {}
         ELSE {[command |-> parts[1],
                param |-> IF Len(parts) > 1 /\ parts[1] \notin {<<"l">>, <<"d", "u">>}
                          THEN <<parts[2]>> ELSE <<>>]}

\* str::replace('\'', "''")
RECURSIVE escape_quotes(_)
escape_quotes(text) ==
    IF text = <<>> THEN <<>>
    ELSE (IF Head(text) = "'" THEN <<"'", "'">> ELSE <<Head(text)>>)
             \o escape_quotes(Tail(text))

\* The catalog query of each list_*_sql and of describe_table_sql, as the
\* catalog it reads and the escaped name it filters by.
catalog_sql(catalog, param) ==
    <<"SELECT", catalog>>
        \o (IF param = <<>> THEN <<>> ELSE <<"LIKE">> \o escape_quotes(param[1]))

\* MetaCommand::to_sql (it never fails): \d without a table lists the tables.
to_sql(cmd) ==
    CASE cmd.command = <<"d">> ->
             IF cmd.param = <<>> THEN catalog_sql("tables", <<>>)
             ELSE catalog_sql("columns", cmd.param)
      [] cmd.command = <<"d", "t">> -> catalog_sql("tables", cmd.param)
      [] cmd.command = <<"d", "v">> -> catalog_sql("views", cmd.param)
      [] cmd.command = <<"d", "i">> -> catalog_sql("indexes", cmd.param)
      [] cmd.command = <<"d", "s">> -> catalog_sql("sequences", cmd.param)
      [] cmd.command = <<"d", "f">> -> catalog_sql("functions", cmd.param)
      [] cmd.command = <<"d", "n">> -> catalog_sql("schemas", cmd.param)
      [] cmd.command = <<"l">> -> catalog_sql("databases", <<>>)
      [] cmd.command = <<"d", "u">> -> catalog_sql("roles", <<>>)

\* A choice of actual_sql that looks for the meta-command in the text as read,
\* comments included.
actual_sql_of_original(sql) ==
    IF parse(sql) # {} THEN to_sql(CHOOSE cmd \in parse(sql) : TRUE) ELSE sql

\* execute_query's actual_sql for the pending text it read and trimmed: the
\* SQL of the meta-command the comment-stripped text parses to, else the text.
actual_sql(sql) ==
    LET sql_without_comments == strip_sql_comments(sql) IN
    IF parse(sql_without_comments) # {}
    THEN to_sql(CHOOSE cmd \in parse(sql_without_comments) : TRUE)
    ELSE sql

\* A call of pattern_match, check_plaintext_host or check_hashed_host on the
\* lookup string of a host and port: its arguments, whether it has returned,
\* and what it returned.
NoApply ==
    [fn |-> "none", hostname |-> <<>>, port |-> 22, pattern |-> <<>>,
     done |-> FALSE, result |-> FALSE]

VARIABLES
    active_connections, \* ConnectionManager.active_connections: name -> ActiveConnection
    tunnels,            \* TunnelManager.tunnels: name -> ActiveTunnel
    allocated,          \* PortAllocator.allocated: port -> connection name
    external,           \* ports bound by other processes of the machine
    tasks,              \* accept-loop tasks whose JoinHandle a record holds: id -> [st, port]
    closing,            \* ports whose listener an aborted, not yet dropped accept loop owns
    fwd,                \* per-connection forwarding tasks that run: id -> [parent, st]
    connLock,           \* holder of the active_connections mutex, NoProc when free
    pc,                 \* each caller's position
    arg,                \* each caller's connection name
    lport,              \* each caller's local_port (get_or_create_tunnel)
    pre,                \* what the tables held for arg when the call started
    auth,               \* each caller's answer from authenticate_publickey
    last,               \* the call that returned last
    track,              \* whether this behaviour keeps the history below
    returned,           \* name -> sessions get_or_create returned since the last close
    dbDials,            \* name -> successful database dials since the last close
    sshDials,           \* name -> SSH sessions opened since the last close
    verify,             \* the call of verify_host_key
    built,              \* how the TunnelManager was built (see BuiltFrom)
    applied,            \* the call of a function of known_hosts.rs or of strip_sql_comments
    freed,              \* the entries the last deallocating close removed, when kept
    written,            \* the payload execute_query gave to write_results last
    fwdError,           \* the error a per-connection forwarding task logged last
    query,              \* each caller's pending SQL and actual_sql (execute_query)
    owner,              \* the holder of each mutex, NoProc when free
    at,                 \* the lock paths each thread's operation may still take
    workspace_dir       \* /tmp/helix-dadbod: whether it exists, and its files

\* The mutexes of the program: Dadbod.manager, ConnectionManager's
\* active_connections, TunnelManager's tunnels and port_allocator, and the
\* ssh_session of a tunnel.
Locks == {"manager", "active_connections", "tunnels", "port_allocator", "ssh_session"}
\* The threads that take them: the callers and the per-connection forwarding
\* tasks of one tunnel.
Forwarders == {11, 12}
Threads == Procs \cup Forwarders
\* The workspace directory before the first Workspace::create.
NoDir == [exists |-> FALSE, files |-> {}]

tables == <<active_connections, tunnels, allocated>>
env == <<external, tasks, closing, fwd>>
caller == <<connLock, pc, arg, lport, pre, auth>>
locking == <<owner, at>>
hist == <<last, track, returned, dbDials, sshDials, verify, built, applied, freed, written,
         fwdError>>
vars == <<active_connections, tunnels, allocated, external, tasks, closing, fwd, connLock,
          pc, arg, lport, pre, auth, last, track, returned, dbDials, sshDials, verify,
          built, applied, freed, written, fwdError, query, owner, at, workspace_dir>>

\* ------------------------------------------------ host key verification switch
\* The ways a TunnelManager is built: by ConnectionManager::new from a
\* configuration file that sets skip_host_key_verification to true ("true"),
\* to false ("false") or does not mention it ("absent"), or by
\* TunnelManager::default() ("default").
BuiltFrom == {"true", "false", "absent", "default"}

\* SqlConfig.skip_host_key_verification as serde reads it: #[serde(default)]
\* makes an absent key false.
SqlConfig(file) == IF file = "absent" THEN FALSE ELSE file = "true"

\* impl Default for TunnelManager: Self::new(false).
TunnelManager_default == FALSE

\* TunnelManager.skip_host_key_verification, which every SshClientHandler is
\* given: ConnectionManager::new passes the configuration's flag on.
skip_host_key_verification ==
    IF built = "default" THEN TunnelManager_default ELSE SqlConfig(built)

\* SshClientHandler::check_server_key: whether the key is accepted, what
\* verify_host_key returned ("none" when it was not called) and the line logged.
check_server_key_quiet(skip_verification, call) ==
    IF skip_verification
    THEN [ok |-> TRUE, result |-> "none", log |-> "none"]
    ELSE LET r == verify_host_key(call.file, call.contents, call.hostname,
                                  call.port, call.key)
         IN  [ok |-> r = "true", result |-> r,
              log |-> CASE r = "true" -> "verified"
                        [] r = "false" -> "failed"
                        [] OTHER -> "error"]
check_server_key_lenient(skip_verification, call) ==
    IF skip_verification
    THEN [ok |-> TRUE, result |-> "none", log |-> "insecure"]
    ELSE LET r == verify_host_key(call.file, call.contents, call.hostname,
                                  call.port, call.key)
         IN  [ok |-> r # "false", result |-> r,
              log |-> CASE r = "true" -> "verified"
                        [] r = "false" -> "failed"
                        [] OTHER -> "error"]
check_server_key(skip_verification, call) ==
    IF skip_verification
    THEN [ok |-> TRUE, result |-> "none", log |-> "insecure"]
    ELSE LET r == verify_host_key(call.file, call.contents, call.hostname,
                                  call.port, call.key)
         IN  [ok |-> r = "true", result |-> r,
              log |-> CASE r = "true" -> "verified"
                        [] r = "false" -> "failed"
                        [] OTHER -> "error"]

\* A store that vouches for the SSH server's key.
TrustedHost ==
    [file |-> "text", contents |-> StoreText(<<LinePlainK>>), hostname |-> <<"h">>,
     port |-> 22, key |-> "K", result |-> "none", log |-> "none"]

\* ------------------------------------------------------------- workspace
\* A payload given to Workspace::write_results: its kind, the SQL text it
\* shows (<<>> when it shows none), and whether the write succeeded.
NoPayload == [kind |-> "none", sql |-> <<>>, ok |-> FALSE]
\* No execute_query in progress.
NoQuery == [read |-> <<>>, actual |-> <<>>]

\* What the three tables hold for a name.
Held(n) == [conn |-> n \in DOMAIN active_connections,
            tun |-> n \in DOMAIN tunnels,
            port |-> \E q \in DOMAIN allocated : allocated[q] = n]
NoPre == [conn |-> FALSE, tun |-> FALSE, port |-> FALSE]
\* last.val: connect: 1 when the cache was hit; close: 1 when an entry was
\* found; close_all: the number of entries whose Workspace::cleanup failed.
NoCall == [op |-> "none", ok |-> TRUE, val |-> 0]

\* ------------------------------------------------------------ PortAllocator
\* The ports `name` owns in the table (PortAllocator::allocate's first loop
\* returns whichever the HashMap yields first).
OwnedPorts(alloc, name) == {q \in DOMAIN alloc : alloc[q] = name}

\* std::net::TcpListener::bind(("127.0.0.1", port)) succeeds: no other process
\* and no listener of this process holds the port.
\* An accept loop that runs, or that was aborted and is not yet dropped, owns
\* its listener.
LiveListeners == {i \in DOMAIN tasks : tasks[i].st = "running"}

\* A probe that always succeeds.
BindOk_always(port) == TRUE

BindOk(port) ==
    /\ port \notin external
    /\ port \notin closing
    /\ \A i \in LiveListeners : tasks[i].port # port

\* allocate's scan without its `contains_key` skip: every bindable port is a
\* candidate, tracked or not.
FreePorts_untracked(alloc) == {q \in Ports : BindOk(q)}

\* The candidates of PortAllocator::allocate's scan: untracked and bindable.
FreePorts(alloc) == {q \in Ports : q \notin DOMAIN alloc /\ BindOk(q)}
Min(S) == CHOOSE x \in S : \A y \in S : x <= y

\* An allocate that hands out the lowest port of the range when none is free.
allocate_steal(alloc, name) ==
    IF OwnedPorts(alloc, name) # {} THEN OwnedPorts(alloc, name)
    ELSE IF FreePorts(alloc) # {} THEN {Min(FreePorts(alloc))}
    ELSE {TUNNEL_PORT_START}

\* An allocate that does not look for a port the name already owns.
allocate_fresh(alloc, name) ==
    IF FreePorts(alloc) # {} THEN {Min(FreePorts(alloc))} ELSE {}

\* PortAllocator::allocate: the set of ports the call may return ({} when it
\* fails with "No available ports").
allocate(alloc, name) ==
    IF OwnedPorts(alloc, name) # {} THEN OwnedPorts(alloc, name)
    ELSE IF FreePorts(alloc) # {} THEN {Min(FreePorts(alloc))}
    ELSE {}

\* A deallocate that clears the table.
deallocate_all(alloc, port) == EmptyMap

\* PortAllocator::deallocate
deallocate(alloc, port) == Remove(alloc, port)

\* ------------------------------------------------------------------- Init
InitKeeping(history, call, from, match, bound, keep) ==
    /\ track = history
    /\ verify = call
    /\ built = from
    /\ applied = match
    /\ external = bound
    /\ freed = [keep |-> keep, gone |-> EmptyMap]
    /\ written = NoPayload
    /\ fwdError = "none"
    /\ query = [p \in Procs |-> NoQuery]
    /\ owner = [l \in Locks |-> NoProc]
    /\ at = [t \in Threads |-> {}]
    /\ workspace_dir = NoDir
    /\ active_connections = EmptyMap
    /\ tunnels = EmptyMap
    /\ allocated = EmptyMap
    /\ tasks = EmptyMap
    /\ closing = {}
    /\ fwd = EmptyMap
    /\ connLock = NoProc
    /\ pc = [p \in Procs |-> "idle"]
    /\ arg = [p \in Procs |-> "u"]
    /\ lport = [p \in Procs |-> 0]
    /\ pre = [p \in Procs |-> NoPre]
    /\ auth = [p \in Procs |-> "none"]
    /\ last = NoCall
    /\ returned = [n \in Names |-> {}]
    /\ dbDials = [n \in Names |-> 0]
    /\ sshDials = [n \in Names |-> 0]

InitMachine(history, call, from, match, bound) ==
    InitKeeping(history, call, from, match, bound, FALSE)

InitAll(history, call, from, match) == InitMachine(history, call, from, match, {})

InitOf(history, call, from) == InitAll(history, call, from, NoApply)

\* A manager built from a configuration that keeps verification on, on a
\* machine whose store vouches for the SSH server.
InitWith(history) == InitOf(history, TrustedHost, "false")

Init == InitWith(FALSE)

\* The history of a name: a counter stops at MaxDials.
Count(counter, n) ==
    IF track THEN [counter EXCEPT ![n] = IF @ < MaxDials THEN @ + 1 ELSE @] ELSE counter
Returned(n, client) ==
    IF track THEN [returned EXCEPT ![n] = @ \cup {client}] ELSE returned

\* --------------------------------------------------------- call and return
\* A call that does not wait for the mutex.
Lock_free(p) == pc[p] = "idle"

\* `self.active_connections.lock().await`: the caller waits until the mutex
\* is free and takes it.
Lock(p) == pc[p] = "idle" /\ connLock = NoProc

\* Caller p is inside test_connection, whose query is `SELECT version()`.
TestSql == <<"SELECT", "version()">>
Testing(p) == query[p].actual = TestSql

\* The operation returns: its guard on active_connections is dropped.  Inside
\* test_connection, a get_or_create_connection that returns Ok leaves the
\* caller before the second lock().await, and one that returns Err is
\* test_connection's own return (`?`).
Return(p, op, ok, val) ==
    /\ connLock' = NoProc
    /\ auth' = [auth EXCEPT ![p] = "none"]
    /\ lport' = [lport EXCEPT ![p] = 0]
    /\ pre' = [pre EXCEPT ![p] = NoPre]
    /\ IF Testing(p) /\ op = "connect" /\ ok
       THEN /\ pc' = [pc EXCEPT ![p] = "test_lock"]
            /\ UNCHANGED <<arg, last, query>>
       ELSE /\ pc' = [pc EXCEPT ![p] = "idle"]
            /\ arg' = [arg EXCEPT ![p] = "u"]
            /\ last' = [op |-> IF Testing(p) THEN "test" ELSE op, ok |-> ok, val |-> val]
            /\ query' = [query EXCEPT ![p] = NoQuery]

\* An await that gives the mutex up while the operation is suspended.
Suspend_unlocked(p, n, to, port) ==
    /\ pc' = [pc EXCEPT ![p] = to]
    /\ connLock' = NoProc
    /\ arg' = [arg EXCEPT ![p] = n]
    /\ lport' = [lport EXCEPT ![p] = port]
    /\ pre' = [pre EXCEPT ![p] = IF pc[p] \in {"idle", "test_call"} THEN Held(n) ELSE @]
    /\ UNCHANGED last

\* The operation suspends at its next await, holding the mutex.
Suspend(p, n, to, port) ==
    /\ pc' = [pc EXCEPT ![p] = to]
    /\ connLock' = p
    /\ arg' = [arg EXCEPT ![p] = n]
    /\ lport' = [lport EXCEPT ![p] = port]
    /\ pre' = [pre EXCEPT ![p] = IF pc[p] \in {"idle", "test_call"} THEN Held(n) ELSE @]
    /\ UNCHANGED last

Await(p, n, to, port) == Suspend(p, n, to, port) /\ UNCHANGED <<query, auth>>

\* ------------------------------------ ConnectionManager::get_or_create_connection
\* A get_or_create_tunnel without the check for an existing tunnel.
GctStart_unchecked(p, n) ==
    IF allocate(allocated, n) = {}
    THEN /\ Return(p, "connect", FALSE, 0)
         /\ UNCHANGED allocated
    ELSE \E port \in allocate(allocated, n), loaded \in BOOLEAN :
           /\ allocated' = Insert(allocated, port, n)
           /\ IF loaded THEN Await(p, n, "ct_connect", port)
              ELSE Return(p, "connect", FALSE, 0)

\* TunnelManager::get_or_create_tunnel up to create_tunnel's first await: an
\* existing tunnel's port is returned; otherwise a port is allocated, the
\* ssh_config entry resolved (SshTunnel::ConfigRef) and the private key found
\* and loaded (find_default_ssh_key, load_secret_key).
GctStart(p, n) ==
    IF n \in DOMAIN tunnels
    THEN /\ Await(p, n, "pg_dial", tunnels[n].local_port)
         /\ UNCHANGED allocated
    ELSE IF allocate(allocated, n) = {}
    THEN /\ Return(p, "connect", FALSE, 0)
         /\ UNCHANGED allocated
    ELSE \E port \in allocate(allocated, n), loaded \in BOOLEAN :
           /\ allocated' = Insert(allocated, port, n)
           /\ IF loaded THEN Await(p, n, "ct_connect", port)
              ELSE Return(p, "connect", FALSE, 0)

\* The call takes the mutex and runs to its first await: the cache check, the
\* descriptor lookup, create_connection's match on the engine type and, for a
\* tunnelled descriptor, the start of get_or_create_tunnel.
Connect(p, n) ==
    /\ UNCHANGED <<active_connections, tunnels, env, track, dbDials, sshDials, verify, built, applied, freed, written, fwdError, locking, workspace_dir>>
    /\ IF n \in DOMAIN active_connections
       THEN /\ Return(p, "connect", TRUE, 1)
            /\ returned' = Returned(n, active_connections[n].client)
            /\ UNCHANGED allocated
       ELSE /\ UNCHANGED returned
            /\ IF get_connection(n) = {} \/ ~Supported(Config[n].db_type)
               THEN Return(p, "connect", FALSE, 0) /\ UNCHANGED allocated
               ELSE IF Config[n].ssh_tunnel
               THEN GctStart(p, n)
               ELSE Await(p, n, "pg_dial", 0) /\ UNCHANGED allocated

ConnectCall(p, n) == Lock(p) /\ Connect(p, n)

\* create_tunnel: client::connect returns. When the SSH server was reached,
\* the key exchange hands its key to the handler's check_server_key, whose
\* Err fails the connect; after it the rest of the handshake succeeds or not.
CtConnect(p) ==
    /\ pc[p] = "ct_connect"
    /\ UNCHANGED <<tables, env, track, returned, dbDials, built, applied, freed, written, fwdError, locking, workspace_dir>>
    /\ \E reached \in BOOLEAN, established \in BOOLEAN :
         IF ~reached
         THEN /\ Return(p, "connect", FALSE, 0)
              /\ UNCHANGED <<sshDials, verify>>
         ELSE LET checked == check_server_key(skip_host_key_verification, verify)
              IN  /\ verify' = [verify EXCEPT !.result = checked.result,
                                              !.log = checked.log]
                  /\ IF checked.ok /\ established
                     THEN /\ sshDials' = Count(sshDials, arg[p])
                          /\ Await(p, arg[p], "ct_auth", lport[p])
                     ELSE /\ Return(p, "connect", FALSE, 0)
                          /\ UNCHANGED sshDials

\* create_tunnel: authenticate_publickey returns Ok(true) when the server
\* accepted the key, Ok(false) when it rejected it, or Err; `?` returns on Err
\* only and the bool is dropped.
CtAuth(p) ==
    /\ pc[p] = "ct_auth"
    /\ UNCHANGED <<tables, env, track, returned, dbDials, sshDials, verify, built, applied, freed, written, fwdError, locking, workspace_dir>>
    /\ \E answer \in {"accepted", "rejected", "error"} :
         IF answer # "error"
         THEN /\ Suspend(p, arg[p], "ct_bind", lport[p])
              /\ auth' = [auth EXCEPT ![p] = answer]
              /\ UNCHANGED query
         ELSE Return(p, "connect", FALSE, 0)

\* The task numbers of a name that no accept loop and no forwarding task's
\* parent uses.
FreeTaskIds(n) ==
    {k \in 1..MaxTasks :
        <<n, k>> \notin DOMAIN tasks \cup {fwd[j].parent : j \in DOMAIN fwd}}

\* create_tunnel: TcpListener::bind returns; on success the accept loop is
\* spawned and get_or_create_tunnel inserts the record (no await in between).
CtBind(p) ==
    /\ pc[p] = "ct_bind"
    /\ UNCHANGED <<active_connections, allocated, external, closing, fwd, track,
                   returned, dbDials, sshDials, verify, built, applied, freed, written, fwdError, locking, workspace_dir>>
    /\ IF BindOk(lport[p])
       THEN /\ FreeTaskIds(arg[p]) # {}
            /\ tasks' = Insert(tasks, <<arg[p], Min(FreeTaskIds(arg[p]))>>,
                               [st |-> "running", port |-> lport[p]])
            /\ tunnels' = Insert(tunnels, arg[p],
                                 [local_port |-> lport[p],
                                  task |-> <<arg[p], Min(FreeTaskIds(arg[p]))>>])
            /\ Suspend(p, arg[p], "pg_dial", lport[p])
            /\ auth' = [auth EXCEPT ![p] = "none"]
            /\ UNCHANGED query
       ELSE /\ Return(p, "connect", FALSE, 0)
            /\ UNCHANGED <<tunnels, tasks>>

\* The session numbers of a name that its cached session does not use.
FreeSessionIds(n) ==
    SessionIds \ (IF n \in DOMAIN active_connections
                  THEN {active_connections[n].client} ELSE {})

\* ---------------------------------------------------------------- Workspace
\* The files of a workspace: /tmp/helix-dadbod/{connection_name}.sql and the
\* shared /tmp/helix-dadbod/results.dbout.
sql_file(name) == <<name, "sql">>
dbout_file == <<"results", "dbout">>

\* Workspace::create that succeeds: create_dir_all, the SQL file written
\* when absent, results.dbout overwritten.  (A create that fails part-way
\* leaves at most an SQL file of a name that is not active, which no
\* operation reads; the model leaves the directory as it was.)
create(dir, name) ==
    [exists |-> TRUE, files |-> dir.files \cup {sql_file(name), dbout_file}]

\* Workspace::cleanup that succeeds: remove_dir_all of the shared directory
\* when it exists.
cleanup(dir) == NoDir

\* Workspace::cleanup that fails leaves the directory.  Of the SQL files the
\* model keeps those of the cached connections: no operation reads another.
forget(dir, names) == [dir EXCEPT !.files = @ \ {sql_file(n) : n \in names}]

\* fs::read_to_string and fs::write can succeed only on a file that exists,
\* in a directory that exists; remove_dir_all can fail only when it runs.
read_query(dir, name) == IF sql_file(name) \in dir.files THEN BOOLEAN ELSE {FALSE}
write_results(dir) == IF dir.exists THEN BOOLEAN ELSE {FALSE}
cleanup_results(dir) == IF dir.exists THEN BOOLEAN ELSE {TRUE}

\* tokio_postgres::connect: a dial of localhost:local_port can succeed only
\* while an accept loop serves the port; a direct dial depends on the database
\* alone.
pg_connect(name, local_port) ==
    IF Config[name].ssh_tunnel /\ (\A i \in LiveListeners : tasks[i].port # local_port)
    THEN {FALSE}
    ELSE BOOLEAN

\* create_postgres_connection: tokio_postgres::connect returns; then
\* Workspace::create, then get_or_create_connection's insert into the cache.
PgDial(p) ==
    /\ pc[p] = "pg_dial"
    /\ UNCHANGED <<tunnels, allocated, env, track, sshDials, verify, built, applied, freed, written, fwdError, locking>>
    /\ \E dialed \in pg_connect(arg[p], lport[p]), created \in BOOLEAN :
         IF ~dialed
         THEN /\ Return(p, "connect", FALSE, 0)
              /\ UNCHANGED <<active_connections, returned, dbDials, workspace_dir>>
         ELSE /\ FreeSessionIds(arg[p]) # {}
              /\ dbDials' = Count(dbDials, arg[p])
              /\ IF created
                 THEN /\ workspace_dir' = create(workspace_dir, arg[p])
                      /\ active_connections' =
                            Insert(active_connections, arg[p],
                                   [client |-> Min(FreeSessionIds(arg[p])),
                                    uses_tunnel |-> Config[arg[p]].ssh_tunnel,
                                    local_port |-> lport[p]])
                      /\ returned' = Returned(arg[p], Min(FreeSessionIds(arg[p])))
                      /\ Return(p, "connect", TRUE, 0)
                 ELSE /\ Return(p, "connect", FALSE, 0)
                      /\ UNCHANGED <<active_connections, returned, workspace_dir>>

\* ------------------------------------------------------------ TunnelManager
\* JoinHandle::abort, after which the handle is dropped with its ActiveTunnel:
\* a running task is marked cancelled, and the runtime drops its future (with
\* the listener the future owns) when it next schedules the task; a finished
\* task is forgotten.  The ports and the tasks left, as <<closing, tasks>>.
\* (When MaxClosing aborted tasks already await their drop, the runtime drops
\* this one at once.)
Aborted(cl, ports) ==
    IF Cardinality(cl \cup ports) <= MaxClosing THEN cl \cup ports ELSE cl

abort(cl, ts, i) ==
    <<IF ts[i].st = "running" THEN Aborted(cl, {ts[i].port}) ELSE cl, Remove(ts, i)>>

\* TunnelManager::close_tunnel: the tables and tasks it leaves, as
\* <<tunnels, allocated, closing, tasks>>.
close_tunnel(tun, alloc, cl, ts, name) ==
    IF name \in DOMAIN tun
    THEN <<Remove(tun, name), deallocate(alloc, tun[name].local_port)>>
         \o abort(cl, ts, tun[name].task)
    ELSE <<tun, alloc, cl, ts>>

\* TunnelManager::close_all: every record is drained, its port deallocated and
\* its task aborted.
tunnel_close_all(tun, alloc, cl, ts) ==
    <<EmptyMap,
      [q \in DOMAIN alloc \ {tun[n].local_port : n \in DOMAIN tun} |-> alloc[q]],
      Aborted(cl, {ts[tun[n].task].port :
                     n \in {x \in DOMAIN tun : ts[tun[x].task].st = "running"}}),
      [i \in DOMAIN ts \ {tun[n].task : n \in DOMAIN tun} |-> ts[i]]>>

\* ---------------------------------------- ConnectionManager::close_connection
ClearHistory(S) ==
    /\ returned' = [n \in Names |-> IF n \in S THEN {} ELSE returned[n]]
    /\ dbDials' = [n \in Names |-> IF n \in S THEN 0 ELSE dbDials[n]]
    /\ sshDials' = [n \in Names |-> IF n \in S THEN 0 ELSE sshDials[n]]

\* The history of deallocations, after a close that took the table from
\* alloc to left.
Freed(alloc, left) ==
    LET gone == DOMAIN alloc \ DOMAIN left IN
    IF freed.keep /\ gone # {}
    THEN [freed EXCEPT !.gone = [q \in gone |-> alloc[q]]]
    ELSE freed

\* The tunnel manager's state, as the close operations take and leave it.
TunnelState == <<tunnels, allocated, closing, tasks>>

\* close_connection that closes the name's tunnel whether or not the cache
\* held an entry.
close_connection_eager(conns, tm, name, cleaned) ==
    IF name \in DOMAIN conns /\ ~cleaned
    THEN [ok |-> FALSE, found |-> 1, conns |-> Remove(conns, name), tm |-> tm]
    ELSE [ok |-> TRUE, found |-> IF name \in DOMAIN conns THEN 1 ELSE 0,
          conns |-> Remove(conns, name),
          tm |-> close_tunnel(tm[1], tm[2], tm[3], tm[4], name)]

\* close_connection that closes every tunnel of the manager, not the name's.
close_connection_sweeping(conns, tm, name, cleaned) ==
    IF name \notin DOMAIN conns
    THEN [ok |-> TRUE, found |-> 0, conns |-> conns, tm |-> tm]
    ELSE IF ~cleaned
    THEN [ok |-> FALSE, found |-> 1, conns |-> Remove(conns, name), tm |-> tm]
    ELSE [ok |-> TRUE, found |-> 1, conns |-> Remove(conns, name),
          tm |-> tunnel_close_all(tm[1], tm[2], tm[3], tm[4])]

\* What close_connection returns and leaves: the entry is removed; a failed
\* Workspace::cleanup returns early (`?`); otherwise the session is dropped and
\* a tunnelled entry's tunnel closed.  Nothing happens for an absent name.
close_connection(conns, tm, name, cleaned) ==
    IF name \notin DOMAIN conns
    THEN [ok |-> TRUE, found |-> 0, conns |-> conns, tm |-> tm]
    ELSE IF ~cleaned
    THEN [ok |-> FALSE, found |-> 1, conns |-> Remove(conns, name), tm |-> tm]
    ELSE IF conns[name].uses_tunnel
    THEN [ok |-> TRUE, found |-> 1, conns |-> Remove(conns, name),
          tm |-> close_tunnel(tm[1], tm[2], tm[3], tm[4], name)]
    ELSE [ok |-> TRUE, found |-> 1, conns |-> Remove(conns, name), tm |-> tm]

\* The call takes the mutex and runs to its end: the locks of the tunnel table
\* and of the port table it awaits are held by nobody else.
CloseConnection(p, n) ==
    /\ Lock(p)
    /\ UNCHANGED <<external, fwd, track, verify, built, applied, written, fwdError, locking>>
    /\ ClearHistory({n})
    /\ \E cleaned \in cleanup_results(workspace_dir) :
         LET r == close_connection(active_connections, TunnelState, n, cleaned) IN
           /\ workspace_dir' = IF n \in DOMAIN active_connections /\ cleaned
                               THEN cleanup(workspace_dir)
                               ELSE forget(workspace_dir, {n})
           /\ active_connections' = r.conns
           /\ tunnels' = r.tm[1]
           /\ allocated' = r.tm[2]
           /\ closing' = r.tm[3]
           /\ tasks' = r.tm[4]
           /\ freed' = Freed(allocated, r.tm[2])
           /\ Return(p, "close", r.ok, r.found)

\* --------------------------------------------- ConnectionManager::close_all
\* close_all that propagates the first failed Workspace::cleanup (`?`): the
\* drain is dropped, which empties the cache, and the tunnels are left alone.
close_all_strict(conns, tm, failed) ==
    IF failed # {}
    THEN [ok |-> FALSE, conns |-> EmptyMap, tm |-> tm]
    ELSE [ok |-> TRUE, conns |-> EmptyMap,
          tm |-> tunnel_close_all(tm[1], tm[2], tm[3], tm[4])]

\* What close_all returns and leaves: every entry is drained, the result of its
\* Workspace::cleanup ignored (`let _ =`); then TunnelManager::close_all.
\* `failed` are the entries whose cleanup fails.
close_all(conns, tm, failed) ==
    [ok |-> TRUE, conns |-> EmptyMap,
     tm |-> tunnel_close_all(tm[1], tm[2], tm[3], tm[4])]

CloseAll(p) ==
    /\ Lock(p)
    /\ UNCHANGED <<external, fwd, track, verify, built, applied, written, fwdError, locking>>
    /\ ClearHistory(Names)
    /\ \E failed \in IF workspace_dir.exists THEN SUBSET DOMAIN active_connections ELSE {{}} :
         LET r == close_all(active_connections, TunnelState, failed) IN
           /\ workspace_dir' = IF DOMAIN active_connections \ failed # {}
                               THEN cleanup(workspace_dir)
                               ELSE forget(workspace_dir, failed)
           /\ active_connections' = r.conns
           /\ tunnels' = r.tm[1]
           /\ allocated' = r.tm[2]
           /\ closing' = r.tm[3]
           /\ tasks' = r.tm[4]
           /\ freed' = Freed(allocated, r.tm[2])
           /\ Return(p, "close_all", r.ok, Cardinality(failed))

\* ------------------------------------------ ConnectionManager::execute_query
\* What the user may have left in the connection's .sql file: the tokens
\* \d, \dt a, \d a and \l alone and between comments, literal SQL, other
\* backslash words, blank text.
Leads ==
    {<<>>,
     <<"-", "-", "c", "\n">>,
     <<"/", "*", "c", "*", "/">>,
     <<" ", "/", "*", "-", "-", "*", "/", " ">>,
     <<"/", "*", "*", "/", "/", "*", "/", "c", "*", "/">>,
     <<"-", "-", "/", "*", "\n", "/", "*", "c", "\n", "c", "*", "/", "\n">>}
Tokens ==
    {<<"\\", "d">>, <<"\\", "d", "t", " ", "a">>, <<"\\", "d", " ", "a">>, <<"\\", "l">>}
Trails ==
    {<<>>,
     <<"-", "-", "c">>,
     <<"/", "*", "c", "*", "/">>,
     <<"\n", "-", "-", "c", "\n">>,
     <<" ", "/", "*", "c", "*", "/", " ", "-", "-", "/", "*">>}
Literals ==
    {<<"q">>, <<" ", "q", "\n">>, <<"-", "-", "c", "\n", "q">>,
     <<"q", " ", "/", "*", "c", "*", "/", " ", "\\", "d">>,
     <<"\\", "x">>, <<"\\">>, <<"-", "-", " ", "\\", "d">>}
Blanks == {<<>>, <<" ", "\n">>}
PendingTexts ==
    {lead \o token \o trail : lead \in Leads, token \in Tokens, trail \in Trails}
        \cup Literals \cup Blanks

\* execute_query up to its await of client.query: the lock, the lookup of the
\* name, Workspace::read_query, the trim, the "No SQL query found" payload
\* for blank text, the choice of actual_sql.
Execute(p, n, texts) ==
    /\ Lock(p)
    /\ UNCHANGED <<tables, env, track, returned, dbDials, sshDials, verify, built,
                   applied, freed, fwdError, locking, workspace_dir>>
    /\ IF n \notin DOMAIN active_connections
       THEN Return(p, "query", FALSE, 0) /\ UNCHANGED written
       ELSE \E readable \in read_query(workspace_dir, n), text \in texts,
               wrote \in write_results(workspace_dir) :
              IF ~readable
              THEN Return(p, "query", FALSE, 0) /\ UNCHANGED written
              ELSE IF trim(text) = <<>>
              THEN /\ written' = [kind |-> "no_query", sql |-> <<>>, ok |-> wrote]
                   /\ Return(p, "query", wrote, 0)
              ELSE /\ Suspend(p, n, "query", 0)
                   /\ UNCHANGED auth
                   /\ query' = [query EXCEPT ![p] =
                                   [read |-> text, actual |-> actual_sql(trim(text))]]
                   /\ UNCHANGED written

ExecCall(p, n) == Execute(p, n, PendingTexts)

\* execute_query after client.query: the rows or the error are formatted (the
\* error payload ends with the SQL, the rows payload shows none) and given to
\* Workspace::write_results, whose failure is the call's.
ExecDone(p) ==
    /\ pc[p] = "query"
    /\ UNCHANGED <<tables, env, track, returned, dbDials, sshDials, verify, built,
                   applied, freed, fwdError, locking, workspace_dir>>
    /\ \E rows \in BOOLEAN, wrote \in write_results(workspace_dir) :
         /\ written' = [kind |-> IF rows THEN "rows" ELSE "error",
                        sql |-> IF rows THEN <<>> ELSE query[p].actual,
                        ok |-> wrote]
         /\ Return(p, "query", wrote, 0)

\* ----------------------------------------- ConnectionManager::test_connection
\* test_connection(n) is called: its first await is the lock().await of
\* get_or_create_connection.
TestCall(p, n) ==
    /\ pc[p] = "idle"
    /\ pc' = [pc EXCEPT ![p] = "test_call"]
    /\ arg' = [arg EXCEPT ![p] = n]
    /\ query' = [query EXCEPT ![p] = [read |-> <<>>, actual |-> TestSql]]
    /\ UNCHANGED <<tables, env, connLock, lport, pre, auth, hist, locking, workspace_dir>>

\* `self.get_or_create_connection(name).await?`
TestConnect(p) ==
    /\ pc[p] = "test_call"
    /\ connLock = NoProc
    /\ Connect(p, arg[p])

\* The second lock().await and connections.get(name): an entry that is gone
\* is "Connection not found after creation"; else query_one is awaited.
TestLock(p) ==
    /\ pc[p] = "test_lock"
    /\ connLock = NoProc
    /\ UNCHANGED <<tables, env, track, returned, dbDials, sshDials, verify, built,
                   applied, freed, written, fwdError, locking, workspace_dir>>
    /\ IF arg[p] \notin DOMAIN active_connections
       THEN Return(p, "test", FALSE, 0)
       ELSE Await(p, arg[p], "test_query", 0)

\* A failing test query that drops the cache entry it was run on.
TestDone_evicting(p) ==
    /\ pc[p] = "test_query"
    /\ UNCHANGED <<tunnels, allocated, env, track, returned, dbDials, sshDials, verify,
                   built, applied, freed, written, fwdError, locking, workspace_dir>>
    /\ \E answered \in BOOLEAN :
         /\ active_connections' =
               IF answered THEN active_connections ELSE Remove(active_connections, arg[p])
         /\ Return(p, "test", answered, IF answered THEN 1 ELSE 0)

\* query_one returns: the row's version string, or "Failed to execute test
\* query".
TestDone(p) ==
    /\ pc[p] = "test_query"
    /\ UNCHANGED <<tables, env, track, returned, dbDials, sshDials, verify, built,
                   applied, freed, written, fwdError, locking, workspace_dir>>
    /\ \E answered \in BOOLEAN : Return(p, "test", answered, IF answered THEN 1 ELSE 0)

\* ------------------------------------------------------- forwarding tasks
\* The accept loop: local_listener.accept() returns a connection and a
\* detached per-connection task is spawned.
Accept(i) ==
    /\ i \in DOMAIN tasks
    /\ tasks[i].st = "running"
    /\ FwdIds \ DOMAIN fwd # {}
    /\ fwd' = Insert(fwd, Min(FwdIds \ DOMAIN fwd), [parent |-> i, st |-> "lock_wait"])
    /\ UNCHANGED <<tables, external, tasks, closing, caller, hist, query, locking, workspace_dir>>

\* The accept loop: accept() fails and the loop breaks; the task ends and its
\* listener is dropped, while the record keeps the JoinHandle.
AcceptFail(i) ==
    /\ i \in DOMAIN tasks
    /\ tasks[i].st = "running"
    /\ tasks' = [tasks EXCEPT ![i] = [st |-> "finished", port |-> 0]]
    /\ UNCHANGED <<tables, external, closing, fwd, caller, hist, query, locking, workspace_dir>>

\* The runtime schedules an aborted accept loop: its future is dropped, and
\* with it the listener and the loop's reference to the SSH session.
Cancelled(port) ==
    /\ port \in closing
    /\ closing' = closing \ {port}
    /\ UNCHANGED <<tables, external, tasks, fwd, caller, hist, query, locking, workspace_dir>>

\* A per-connection task takes the SSH session's mutex and issues
\* channel_open_direct_tcpip.
SessionLocked(i) == \E k \in DOMAIN fwd : fwd[k].parent = i /\ fwd[k].st = "opening"

\* A per-connection task that issues channel_open_direct_tcpip without the
\* session's mutex.
FwdLock_unguarded(j) ==
    /\ j \in DOMAIN fwd
    /\ fwd[j].st = "lock_wait"
    /\ fwd' = [fwd EXCEPT ![j].st = "opening"]
    /\ UNCHANGED <<tables, external, tasks, closing, caller, hist, query, locking, workspace_dir>>

FwdLock(j) ==
    /\ j \in DOMAIN fwd
    /\ fwd[j].st = "lock_wait"
    /\ ~SessionLocked(fwd[j].parent)
    /\ fwd' = [fwd EXCEPT ![j].st = "opening"]
    /\ UNCHANGED <<tables, external, tasks, closing, caller, hist, query, locking, workspace_dir>>

\* What a per-connection task leaves unchanged: all but the set of tasks and
\* the error log.
FwdFrame ==
    UNCHANGED <<tables, external, tasks, closing, caller, last, track, returned, dbDials,
                sshDials, verify, built, applied, freed, written, query, locking, workspace_dir>>

\* A failed channel open that ends the accept loop of its tunnel as well.
FwdOpen_fatal(j) ==
    /\ j \in DOMAIN fwd
    /\ fwd[j].st = "opening"
    /\ \E opened \in BOOLEAN :
         /\ fwd' = IF opened THEN [fwd EXCEPT ![j].st = "copying"] ELSE Remove(fwd, j)
         /\ fwdError' = IF opened THEN fwdError ELSE "channel"
         /\ tasks' = IF opened THEN tasks
                     ELSE [tasks EXCEPT ![fwd[j].parent] = [st |-> "finished", port |-> 0]]
    /\ UNCHANGED <<tables, external, closing, caller, last, track, returned, dbDials,
                   sshDials, verify, built, applied, freed, written, query, locking, workspace_dir>>

\* The channel opens (the session mutex is dropped, copy_bidirectional starts)
\* or fails ("Failed to open SSH channel" is logged, the task ends and its
\* guard on the session is dropped with it).
FwdOpen(j) ==
    /\ j \in DOMAIN fwd
    /\ fwd[j].st = "opening"
    /\ \E opened \in BOOLEAN :
         /\ fwd' = IF opened THEN [fwd EXCEPT ![j].st = "copying"] ELSE Remove(fwd, j)
         /\ fwdError' = IF opened THEN fwdError ELSE "channel"
    /\ FwdFrame

\* copy_bidirectional returns: either side closed, or an error, and then
\* "Forwarding error" is logged; the task ends.
FwdCopyEnd(j) ==
    /\ j \in DOMAIN fwd
    /\ fwd[j].st = "copying"
    /\ fwd' = Remove(fwd, j)
    /\ \E failed \in BOOLEAN : fwdError' = IF failed THEN "copy" ELSE fwdError
    /\ FwdFrame

\* ------------------------------------------------- the rest of the machine
\* Another process binds a loopback port of the range that nobody holds.
ExternalBind(port) ==
    /\ port \in ExternalPorts
    /\ BindOk(port)
    /\ external' = external \cup {port}
    /\ UNCHANGED <<tables, tasks, closing, fwd, caller, hist, query, locking, workspace_dir>>

ExternalRelease(port) ==
    /\ port \in external
    /\ external' = external \ {port}
    /\ UNCHANGED <<tables, tasks, closing, fwd, caller, hist, query, locking, workspace_dir>>

\* ------------------------------------------------------------------- Next
\* The operations callers PS invoke for the names NS.
Calls(PS, NS) ==
    \/ \E p \in PS, n \in NS : ConnectCall(p, n)
    \/ \E p \in PS : CtConnect(p)
    \/ \E p \in PS : CtAuth(p)
    \/ \E p \in PS : CtBind(p)
    \/ \E p \in PS : PgDial(p)
    \/ \E p \in PS, n \in NS : CloseConnection(p, n)
    \/ \E p \in PS : CloseAll(p)

\* The manager under every caller and every name, and its accept loops.
Next ==
    \/ Calls(Procs, Names)
    \/ \E i \in TaskIds : AcceptFail(i)
    \/ \E port \in Ports : Cancelled(port)

Spec == Init /\ [][Next]_vars

\* The tunnelled connections of one caller, their accept loops, and the other
\* processes of the machine binding and releasing ports of the range.
PortNames == {"a", "b"}
NextPorts ==
    \/ Calls({1}, PortNames)
    \/ \E i \in TaskIds : AcceptFail(i)
    \/ \E port \in Ports : Cancelled(port)
    \/ \E port \in ExternalPorts : ExternalBind(port)
    \/ \E port \in ExternalPorts : ExternalRelease(port)

SpecPorts == Init /\ [][NextPorts]_vars

\* The same on a machine where other processes hold all but the MaxOpen
\* lowest ports of the range from the start.
OpenPorts == TUNNEL_PORT_START..(TUNNEL_PORT_START + MaxOpen - 1)
InitFull == InitMachine(FALSE, TrustedHost, "false", NoApply, Ports \ OpenPorts)

SpecFull == InitFull /\ [][NextPorts]_vars

\* One caller opening and closing the tunnelled connections, with the history
\* of deallocated ports kept.
NextReuse ==
    \/ Calls({1}, PortNames)
    \/ \E i \in TaskIds : AcceptFail(i)
    \/ \E port \in Ports : Cancelled(port)

InitReuse == InitKeeping(FALSE, TrustedHost, "false", NoApply, {}, TRUE)

SpecReuse == InitReuse /\ [][NextReuse]_vars

\* One caller connecting, querying and closing the tunnelled connection "a".
QueryNames == {"a"}
NextQuery ==
    \/ Calls({1}, QueryNames)
    \/ \E n \in QueryNames : ExecCall(1, n)
    \/ ExecDone(1)

SpecQuery == Init /\ [][NextQuery]_vars

\* One tunnelled connection with its accept loop and the per-connection
\* forwarding tasks the loop spawns.
FwdNames == {"a"}
NextFwd ==
    \/ Calls({1}, FwdNames)
    \/ \E i \in TaskIds : Accept(i)
    \/ \E i \in TaskIds : AcceptFail(i)
    \/ \E port \in Ports : Cancelled(port)
    \/ \E j \in FwdIds : FwdLock(j)
    \/ \E j \in FwdIds : FwdOpen(j)
    \/ \E j \in FwdIds : FwdCopyEnd(j)

SpecFwd == Init /\ [][NextFwd]_vars

\* Caller 1 testing the connection "a" while both callers connect and close it,
\* with the history of dials kept.
TestNames == {"a"}
NextTest ==
    \/ Calls(Procs, TestNames)
    \/ \E n \in TestNames : TestCall(1, n)
    \/ TestConnect(1)
    \/ TestLock(1)
    \/ TestDone(1)

SpecTest == InitWith(TRUE) /\ [][NextTest]_vars

\* ------------------------------------------------------------------ Dadbod
\* A facade whose methods run without its mutex.
manager_lock_skipped(p) == TRUE

\* `self.manager.lock().await` returns: the guard lives to the end of the
\* method, so the mutex is free when no other caller is inside a method.
manager_lock(p) == \A q \in Procs \ {p} : pc[q] = "idle"

Dadbod_connect(p, n) == manager_lock(p) /\ ConnectCall(p, n)
Dadbod_test_connection(p, n) == manager_lock(p) /\ TestCall(p, n)
Dadbod_close_connection(p, n) == manager_lock(p) /\ CloseConnection(p, n)
Dadbod_close_all(p) == manager_lock(p) /\ CloseAll(p)
Dadbod_execute_query(p, n) == manager_lock(p) /\ Execute(p, n, {<<>>, <<"q">>})

\* Two callers of one Dadbod and one tunnelled connection.
FacadeNames == {"a"}
NextFacade ==
    \/ \E p \in Procs, n \in FacadeNames : Dadbod_connect(p, n)
    \/ \E p \in Procs, n \in FacadeNames : Dadbod_test_connection(p, n)
    \/ \E p \in Procs, n \in FacadeNames : Dadbod_close_connection(p, n)
    \/ \E p \in Procs : Dadbod_close_all(p)
    \/ \E p \in Procs, n \in FacadeNames : Dadbod_execute_query(p, n)
    \/ \E p \in Procs : CtConnect(p)
    \/ \E p \in Procs : CtAuth(p)
    \/ \E p \in Procs : CtBind(p)
    \/ \E p \in Procs : PgDial(p)
    \/ \E p \in Procs : TestConnect(p)
    \/ \E p \in Procs : TestLock(p)
    \/ \E p \in Procs : TestDone(p)
    \/ \E p \in Procs : ExecDone(p)

SpecFacade == Init /\ [][NextFacade]_vars

\* One caller connecting, querying and closing two tunnelled connections; the
\* pending text is blank, literal SQL or a meta-command.
PairNames == {"a", "b"}
PairTexts == {<<>>, <<"q">>, <<"\\", "d">>}
NextPair ==
    \/ Calls({1}, PairNames)
    \/ \E n \in PairNames : Execute(1, n, PairTexts)
    \/ ExecDone(1)

SpecPair == Init /\ [][NextPair]_vars

\* Two tunnels being opened and used, none closed: the accept loops and the
\* per-connection tasks of both.
ChannelNames == {"a", "b"}
NextChannels ==
    \/ \E n \in ChannelNames : ConnectCall(1, n)
    \/ CtConnect(1)
    \/ CtAuth(1)
    \/ CtBind(1)
    \/ PgDial(1)
    \/ \E i \in TaskIds : Accept(i)
    \/ \E i \in TaskIds : AcceptFail(i)
    \/ \E j \in FwdIds : FwdLock(j)
    \/ \E j \in FwdIds : FwdOpen(j)
    \/ \E j \in FwdIds : FwdCopyEnd(j)

SpecChannels == Init /\ [][NextChannels]_vars

\* Two callers racing for a tunnelled and a direct connection, with the
\* history of dials and returned sessions kept.
DialNames == {"a", "d"}
NextDial == Calls(Procs, DialNames)

SpecDial == InitWith(TRUE) /\ [][NextDial]_vars

\* verify_host_key applied to every store, host, port and key of the model.
Verify ==
    /\ verify.result = "none"
    /\ verify' = [verify EXCEPT !.result =
                     verify_host_key(verify.file, verify.contents, verify.hostname,
                                     verify.port, verify.key)]
    /\ UNCHANGED <<tables, env, caller, last, track, returned, dbDials, sshDials, built, applied, freed, written, fwdError, query, locking, workspace_dir>>

InitVerify == \E call \in VerifyCalls : InitOf(FALSE, call, "false")

NextVerify == Verify

SpecVerify == InitVerify /\ [][NextVerify]_vars

\* pattern_match, check_plaintext_host or check_hashed_host applied to the
\* lookup string of the call's host and port and to its pattern.
Apply ==
    /\ applied.fn # "none"
    /\ ~applied.done
    /\ LET lookup == host_pattern(applied.hostname, applied.port) IN
       applied' = [applied EXCEPT
           !.done = TRUE,
           !.result = CASE applied.fn = "pattern_match" ->
                             pattern_match(lookup, applied.pattern)
                        [] applied.fn = "check_plaintext_host" ->
                             check_plaintext_host(lookup, applied.pattern)
                        [] applied.fn = "check_hashed_host" ->
                             check_hashed_host(lookup, applied.pattern)]
    /\ UNCHANGED <<tables, env, caller, last, track, returned, dbDials, sshDials,
                   verify, built, freed, written, fwdError, query, locking, workspace_dir>>

NextApply == Apply

\* Every host name and every pattern of at most MaxText characters.
HostChars == {"a", "b"}
PatternChars == HostChars \cup {"*", "?"}
Texts(chars) == UNION {[1..k -> chars] : k \in 0..MaxText}
GlobCalls ==
    {[fn |-> "pattern_match", hostname |-> h, port |-> 22, pattern |-> p,
      done |-> FALSE, result |-> FALSE] :
        h \in Texts(HostChars), p \in Texts(PatternChars)}
InitGlob == \E match \in GlobCalls : InitAll(FALSE, NoVerify, "false", match)

SpecGlob == InitGlob /\ [][NextApply]_vars

\* The patterns of a host field: a host name, a host name with a port in
\* brackets, wildcard patterns, the empty pattern.
Bracketed(hostname, port) == <<"[">> \o hostname \o <<"]", ":">> \o PortText(port)
PlainPieces ==
    Hostnames \cup {Bracketed(h, q) : h \in Hostnames, q \in SshPorts}
        \cup {<<"*">>, <<"h", "?">>, <<"[", "*", "]", ":", "7">>, <<>>}

\* The host field that lists the patterns ps.
RECURSIVE HostField(_)
HostField(ps) ==
    IF Len(ps) = 1 THEN ps[1] ELSE ps[1] \o <<",">> \o HostField(Tail(ps))

PlainCalls ==
    {[fn |-> "check_plaintext_host", hostname |-> h, port |-> q,
      pattern |-> HostField(ps), done |-> FALSE, result |-> FALSE] :
        h \in Hostnames, q \in SshPorts,
        ps \in UNION {[1..k -> PlainPieces] : k \in 1..MaxPieces}}
InitPlain == \E match \in PlainCalls : InitAll(FALSE, NoVerify, "false", match)

SpecPlain == InitPlain /\ [][NextApply]_vars

\* Hashed host fields: "|1|salt|hash" with the hash of a host and port of the
\* model under the same or another salt, also with a salt that does not
\* decode, and fields that are not of that form.
Salts == {<<"s">>, <<"t">>, <<"*">>}
HashedField(salt, key, hostname, port) ==
    <<"|", "1", "|">> \o salt \o <<"|">> \o hmac_base64(key, host_pattern(hostname, port))
HashedFields ==
    {HashedField(salt, key, h, q) :
        salt \in Salts, key \in Salts, h \in Hostnames, q \in SshPorts}
    \cup {<<"|", "2", "|", "s", "|">> \o hmac_base64(<<"s">>, <<"h">>),
          <<"h", "|", "1", "|", "s", "|">> \o hmac_base64(<<"s">>, <<"h">>),
          <<"|", "1", "|", "s", "|">> \o hmac_base64(<<"s">>, <<"h">>) \o <<"|">>,
          <<"|", "1", "|", "s">>,
          <<"|", "1", "|", "|">>}
HashedCalls ==
    {[fn |-> "check_hashed_host", hostname |-> h, port |-> q, pattern |-> f,
      done |-> FALSE, result |-> FALSE] :
        h \in Hostnames, q \in SshPorts, f \in HashedFields}
InitHashed == \E match \in HashedCalls : InitAll(FALSE, NoVerify, "false", match)

SpecHashed == InitHashed /\ [][NextApply]_vars

\* strip_sql_comments applied to a text, then to what it returned.
Strip ==
    /\ applied.fn = "strip_sql_comments"
    /\ applied.passes < 2
    /\ applied' = IF applied.passes = 0
                  THEN [applied EXCEPT !.passes = 1,
                                       !.once = strip_sql_comments(applied.sql)]
                  ELSE [applied EXCEPT !.passes = 2,
                                       !.twice = strip_sql_comments(applied.once)]
    /\ UNCHANGED <<tables, env, caller, last, track, returned, dbDials, sshDials,
                   verify, built, freed, written, fwdError, query, locking, workspace_dir>>

NextStrip == Strip

\* Every text of at most MaxSql characters over the comment characters, the
\* space, the line feed and a letter.
SqlChars == {"-", "/", "*", " ", "\n", "a"}
StripCalls ==
    {[fn |-> "strip_sql_comments", sql |-> t, once |-> <<>>, twice |-> <<>>,
      passes |-> 0] : t \in UNION {[1..k -> SqlChars] : k \in 0..MaxSql}}
InitStrip == \E match \in StripCalls : InitAll(FALSE, NoVerify, "false", match)

SpecStrip == InitStrip /\ [][NextStrip]_vars

\* parse_host_from_config applied to a file and an alias.
Lookup ==
    /\ applied.fn = "parse_host_from_config"
    /\ ~applied.done
    /\ applied' = [applied EXCEPT !.done = TRUE,
                                  !.result = parse_host_from_config(applied.content,
                                                                    applied.target)]
    /\ UNCHANGED <<tables, env, caller, last, track, returned, dbDials, sshDials,
                   verify, built, freed, written, fwdError, query, locking, workspace_dir>>

NextLookup == Lookup

\* The lines an ssh config of the model is made of: Host lines of two
\* aliases, one of them also with the keyword in lower case, and settings.
ConfigHostA == <<"H", "o", "s", "t", " ", "a">>
ConfigHostB == <<"H", "o", "s", "t", " ", "b">>
ConfigLowerHostB == <<"h", "o", "s", "t", " ", "b">>
ConfigHostNameX == <<" ", " ", "H", "o", "s", "t", "N", "a", "m", "e", " ", "x">>
ConfigHostnameY == <<"\t", "H", "o", "s", "t", "n", "a", "m", "e", " ", " ", "y", " ">>
ConfigPort == <<" ", " ", "P", "o", "r", "t", " ", "7">>
ConfigUser == <<" ", " ", "U", "s", "e", "r", " ", "u">>
ConfigIdentity == <<" ", " ", "I", "d", "e", "n", "t", "i", "t", "y", "F", "i", "l", "e", " ", "~", "/", "f">>
ConfigComment == <<"#", " ", "H", "o", "s", "t", " ", "a">>
ConfigLines ==
    {ConfigHostA, ConfigHostB, ConfigLowerHostB, ConfigHostNameX, ConfigHostnameY,
     ConfigPort, ConfigUser, ConfigIdentity, ConfigComment}
Aliases == {<<"a">>, <<"b">>, <<"c">>}
LookupCalls ==
    {[fn |-> "parse_host_from_config", file |-> ls, content |-> StoreText(ls),
      target |-> t, result |-> NoHost, done |-> FALSE] :
        ls \in UNION {[1..k -> ConfigLines] : k \in 0..MaxConfigLines}, t \in Aliases}
InitLookup == \E match \in LookupCalls : InitAll(FALSE, NoVerify, "false", match)

SpecLookup == InitLookup /\ [][NextLookup]_vars

\* One caller and one tunnelled connection, on every way of building the
\* manager and every state of the trust store: HOME unset, no store, an
\* unreadable store, or a store of one line.
GuardNames == {"a"}
GuardCalls ==
    {[file |-> f, contents |-> IF f = "text" THEN StoreText(<<l>>) ELSE <<>>,
      hostname |-> <<"h">>, port |-> 22, key |-> "K", result |-> "none",
      log |-> "none"] :
        f \in {"nohome", "missing", "unreadable", "text"}, l \in StoreLines}
InitGuard == \E call \in GuardCalls, from \in BuiltFrom : InitOf(FALSE, call, from)
NextGuard ==
    \/ Calls({1}, GuardNames)
    \/ \E i \in TaskIds : AcceptFail(i)
    \/ \E port \in Ports : Cancelled(port)

SpecGuard == InitGuard /\ [][NextGuard]_vars

\* ------------------------------------------------------------ port tables
\* C2: at every moment the tunnels of two different names hold different local
\* ports, and every tunnel's port lies in TUNNEL_PORT_START..TUNNEL_PORT_END.
C2_PortExclusivity ==
    /\ \A n \in DOMAIN tunnels : tunnels[n].local_port \in Ports
    /\ \A n1 \in DOMAIN tunnels, n2 \in DOMAIN tunnels :
         n1 # n2 => tunnels[n1].local_port # tunnels[n2].local_port

\* Two tunnels are recorded at once, one of them with its accept loop ended
\* and its listener released.
C2_TwoTunnels ==
    /\ "a" \in DOMAIN tunnels
    /\ "b" \in DOMAIN tunnels
    /\ \E n \in DOMAIN tunnels : tasks[tunnels[n].task].st = "finished"

\* C3: whenever no call is in progress, every port the allocator tracks is the
\* port of an ActiveTunnel record of the name that owns it.
C3_PortOnlyWithTunnel ==
    connLock = NoProc =>
        \A q \in DOMAIN allocated :
            /\ allocated[q] \in DOMAIN tunnels
            /\ tunnels[allocated[q]].local_port = q

\* C9: a name has a tunnel record exactly when an accept loop for it is
\* running: every record's task runs, and every running accept loop is the
\* task of a record.
C9_RecordIffAcceptLoop ==
    /\ \A n \in DOMAIN tunnels :
         /\ tunnels[n].task \in DOMAIN tasks
         /\ tasks[tunnels[n].task].st = "running"
    /\ \A i \in DOMAIN tasks :
         tasks[i].st = "running" => \E n \in DOMAIN tunnels : tunnels[n].task = i

\* ------------------------------------------------------- connect and close
\* The step in which caller p's get_or_create_connection(n) returns an error.
ConnectFails(p, n) ==
    /\ pc'[p] = "idle"
    /\ ~last'.ok
    /\ \/ pc[p] = "idle" /\ ConnectCall(p, n)
       \/ pc[p] # "idle" /\ arg[p] = n
                         /\ (CtConnect(p) \/ CtAuth(p) \/ CtBind(p) \/ PgDial(p))

\* What the tables held for n when the call that now returns had started.
Before(p, n) == IF pc[p] = "idle" THEN Held(n) ELSE pre[p]

\* C4: when get_or_create_connection(n) returns an error, the cache, the tunnel
\* table and the port table hold no entry for n that they did not hold before
\* the call.
C4_FailedConnectLeavesNothing ==
    [][\A p \in Procs, n \in Names :
         ConnectFails(p, n) =>
            /\ n \in DOMAIN active_connections' => Before(p, n).conn
            /\ n \in DOMAIN tunnels' => Before(p, n).tun
            /\ OwnedPorts(allocated', n) # {} => Before(p, n).port]_vars

\* C5: when close_connection(n) returns for an active tunnelled connection,
\* whatever it returns, the cache entry and the tunnel record of n are gone, n
\* owns no port and the tunnel's accept loop no longer runs.
C5_CloseRemovesTunnel ==
    [][\A p \in Procs, n \in Names :
         (/\ n \in DOMAIN active_connections
          /\ active_connections[n].uses_tunnel
          /\ CloseConnection(p, n)) =>
            /\ n \notin DOMAIN active_connections'
            /\ n \notin DOMAIN tunnels'
            /\ OwnedPorts(allocated', n) = {}
            /\ n \in DOMAIN tunnels => tunnels[n].task \notin DOMAIN tasks']_vars

\* C6: close_connection(n) for a name the cache does not hold returns success
\* and leaves the cache, the tunnel table and the port table as they were.
C6_CloseAbsentIsNoOp ==
    [][\A p \in Procs, n \in Names :
         (n \notin DOMAIN active_connections /\ Lock(p) /\ CloseConnection(p, n)) =>
            /\ last' = [op |-> "close", ok |-> TRUE, val |-> 0]
            /\ active_connections' = active_connections
            /\ tunnels' = tunnels
            /\ allocated' = allocated]_vars

\* A close of an absent name has returned while the name's tunnel, left by a
\* connect that failed after creating it, is in the tables.
C6_ClosedAbsent ==
    /\ last = [op |-> "close", ok |-> TRUE, val |-> 0]
    /\ "a" \notin DOMAIN active_connections
    /\ "a" \in DOMAIN tunnels
    /\ "b" \in DOMAIN active_connections

\* C7: when close_all returns, the cache and the tunnel table are empty, also
\* when the Workspace::cleanup of some entries failed.
C7_CloseAllEmpties ==
    [][\A p \in Procs :
         (Lock(p) /\ CloseAll(p)) =>
                        /\ active_connections' = EmptyMap
                        /\ tunnels' = EmptyMap]_vars

\* close_all has returned after the cleanup of an entry failed, and has
\* aborted a running accept loop.
C7_ClosedAllPastFailure ==
    /\ last = [op |-> "close_all", ok |-> TRUE, val |-> 1]
    /\ active_connections = EmptyMap
    /\ tunnels = EmptyMap
    /\ closing # {}

\* --------------------------------------------------------------- teardown
\* C8: once close_tunnel or close_all has returned, no per-connection
\* forwarding task of a closed tunnel still runs: every forwarding task that
\* runs was spawned by the accept loop of a tunnel that is still recorded.
C8_NoForwardingAfterClose ==
    \A j \in DOMAIN fwd : fwd[j].parent \in DOMAIN tasks

\* ------------------------------------------------------------ idempotence
\* C1 as stated: between two closes, get_or_create_connection(n) returns one
\* session only, after exactly one database dial and at most one SSH dial.
C1_OneDial ==
    \A n \in Names :
        /\ Cardinality(returned[n]) <= 1
        /\ dbDials[n] <= 1
        /\ sshDials[n] <= 1

\* What holds of a name's cached session: it is the only session returned for
\* the name since its last close, a database dial was made for it, no caller
\* is dialling for the name, and its port is the port of the name's tunnel.
CachedOnce(n) ==
    /\ returned[n] # {} => n \in DOMAIN active_connections
    /\ n \in DOMAIN active_connections =>
         /\ returned[n] = {active_connections[n].client}
         /\ dbDials[n] >= 1
         /\ \A p \in Procs : pc[p] = "idle" \/ arg[p] # n
         /\ active_connections[n].uses_tunnel =>
              /\ n \in DOMAIN tunnels
              /\ tunnels[n].local_port = active_connections[n].local_port

\* C1 (amended): at most one caller is inside get_or_create_connection at a
\* time; once a call for n has succeeded, every call until n is closed returns
\* that same session and tunnel port, and none of them dials the database or
\* the SSH server.  (Dials of calls that failed before the success count too,
\* so more than one dial may precede it.)
C1_OneDialOnceCached ==
    [][/\ Cardinality({p \in Procs : pc'[p] # "idle"}) <= 1
       /\ \A n \in Names :
            /\ CachedOnce(n)'
            /\ (n \in DOMAIN active_connections /\ n \in DOMAIN active_connections') =>
                 /\ active_connections'[n] = active_connections[n]
                 /\ returned'[n] = returned[n]
                 /\ dbDials'[n] = dbDials[n]
                 /\ sshDials'[n] = sshDials[n]]_vars

\* A second call has returned the cached session of a tunnelled connection
\* made with one database dial and one SSH dial.
C1_CacheHit ==
    /\ last = [op |-> "connect", ok |-> TRUE, val |-> 1]
    /\ "a" \in DOMAIN active_connections
    /\ returned["a"] = {active_connections["a"].client}
    /\ dbDials["a"] = 1
    /\ sshDials["a"] = 1

\* ------------------------------------------------------ host key verification
\* A line of the store vouches for a key under a lookup string: it has at
\* least three fields, is no comment, its first field matches the lookup
\* string, and its third field is the text of a key whose encoding is the
\* presented key's.
Vouches(raw, lookup, key) ==
    LET f == split_whitespace(raw) IN
      /\ Len(f) >= 3
      /\ Head(f[1]) # "#"
      /\ IF starts_with(f[1], <<"|", "1", "|">>)
         THEN check_hashed_host(lookup, f[1])
         ELSE check_plaintext_host(lookup, f[1])
      /\ \E k \in parse_public_key(f[2], f[3]) :
            public_key_base64(k) = public_key_base64(key)

\* C10: verify_host_key returns true exactly when the store exists and some
\* line of it vouches for the presented key under the lookup string; it
\* returns false when the store is missing, and false when no line vouches,
\* whatever the lines before a vouching line hold.
C10_VerifyIffSomeLineVouches ==
    verify.result # "none" =>
        LET lookup == host_pattern(verify.hostname, verify.port)
            ls == lines(verify.contents)
        IN  /\ verify.result = "true" <=>
                 /\ verify.file = "text"
                 /\ \E i \in 1..Len(ls) : Vouches(ls[i], lookup, verify.key)
            /\ verify.file = "missing" => verify.result = "false"
            /\ verify.file = "text" => verify.result \in {"true", "false"}

\* A store whose first line names the host with another key and whose second
\* line vouches for the presented key has been verified.
C10_LaterLineVerifies ==
    /\ verify.result = "true"
    /\ verify.file = "text"
    /\ verify.contents = StoreText(<<LinePlainL, LineHashed>>)
    /\ verify.hostname = <<"h">>
    /\ verify.port = 22
    /\ verify.key = "K"

\* ------------------------------------------------------- host key guard
\* What verify_host_key answers for the SSH server on this machine.
Verdict ==
    verify_host_key(verify.file, verify.contents, verify.hostname, verify.port,
                    verify.key)

\* A caller is past client::connect, or a tunnel exists.
SshSessionOpened ==
    \/ \E p \in Procs : pc[p] \in {"ct_auth", "ct_bind"}
    \/ tunnels # EmptyMap
    \/ tasks # EmptyMap

\* C11: with the bypass flag off, SSH authentication is attempted, a listener
\* bound and a tunnel recorded only if verify_host_key returned true for the
\* server's key; a false result and an error reading the trust store both
\* make client::connect fail, so the caller is back at rest with an error.
C11_TunnelOnlyIfVerified ==
    ~skip_host_key_verification =>
        /\ SshSessionOpened => Verdict = "true" /\ verify.result = "true"
        /\ verify.result \in {"false", "error"} =>
              /\ verify.log \in {"failed", "error"}
              /\ ~SshSessionOpened
              /\ \A p \in Procs : pc[p] = "ct_connect" \/ pc[p] = "idle"

\* Witness of C11: a tunnel behind a key that a hashed entry vouches for.
C11_VerifiedTunnel ==
    /\ ~skip_host_key_verification
    /\ "a" \in DOMAIN tunnels
    /\ verify.result = "true"
    /\ verify.contents = StoreText(<<LineHashed>>)

\* C12: with the bypass flag on, check_server_key accepts the key without
\* calling verify_host_key and logs the insecure-mode warning each time; the
\* flag is off when the configuration does not mention it and in a manager
\* built by TunnelManager::default(), and then no key is accepted unverified.
C12_BypassSkipsAndWarns ==
    /\ built \in {"absent", "default", "false"} => ~skip_host_key_verification
    /\ built = "true" => skip_host_key_verification
    /\ skip_host_key_verification =>
          /\ verify.result = "none"
          /\ verify.log \in {"none", "insecure"}
          /\ SshSessionOpened => verify.log = "insecure"
    /\ ~skip_host_key_verification =>
          /\ verify.log # "insecure"
          /\ SshSessionOpened => verify.result = "true"

\* Witness of C12: a tunnel to a server no store vouches for, under the flag.
C12_UnverifiedTunnel ==
    /\ built = "true"
    /\ "a" \in DOMAIN tunnels
    /\ verify.file = "missing"
    /\ verify.log = "insecure"
\* ------------------------------------------------------------- wildcards
\* Glob matching as known_hosts patterns are read: '*' stands for any run of
\* characters, the empty one too, '?' for exactly one character, any other
\* character for itself, and the whole host name is consumed.
RECURSIVE Glob(_, _)
Glob(h, p) ==
    IF p = <<>> THEN h = <<>>
    ELSE IF Head(p) = "*" THEN Glob(h, Tail(p)) \/ (h # <<>> /\ Glob(Tail(h), p))
    ELSE /\ h # <<>>
         /\ Head(p) = "?" \/ Head(p) = Head(h)
         /\ Glob(Tail(h), Tail(p))

\* C13: pattern_match returns what glob matching gives, for every host name
\* and every pattern.
C13_PatternMatchIsGlob ==
    applied.fn = "pattern_match" /\ applied.done =>
        applied.result = Glob(applied.hostname, applied.pattern)
\* ---------------------------------------------------------- host fields
\* The patterns a host field lists.
Pieces(field) == {split(field, ",")[i] : i \in 1..Len(split(field, ","))}

\* C14: the lookup string is the host name for port 22 and "[host]:port" for
\* any other port, so a host field of bare host names never matches a lookup
\* for another port and a field of bracketed entries never matches a lookup
\* for port 22; a comma-separated field matches exactly when one of its
\* patterns equals or matches the lookup string.
C14_LookupAndHostList ==
    applied.fn = "check_plaintext_host" /\ applied.done =>
        LET lookup == IF applied.port = 22 THEN applied.hostname
                      ELSE Bracketed(applied.hostname, applied.port)
            pieces == Pieces(applied.pattern)
        IN  /\ applied.result <=>
                  \E piece \in pieces : piece = lookup \/ pattern_match(lookup, piece)
            /\ pieces \subseteq Hostnames /\ applied.port # 22 => ~applied.result
            /\ pieces \subseteq {Bracketed(h, q) : h \in Hostnames, q \in SshPorts}
                  /\ applied.port = 22 => ~applied.result
            /\ lookup \in pieces => applied.result

\* Witness of C14: the second pattern of a list matches a lookup for port 7
\* that the bare host name before it does not.
C14_SecondPatternMatches ==
    /\ applied.fn = "check_plaintext_host" /\ applied.done
    /\ applied.hostname = <<"h">> /\ applied.port = 7
    /\ applied.pattern = HostField(<<(<<"h">>), Bracketed(<<"h">>, 7)>>)
    /\ applied.result
\* --------------------------------------------------------- hashed hosts
\* C15: a hashed field matches exactly when it has the form |1|salt|hash, the
\* salt decodes and the keyed hash of the lookup string under the salt is the
\* stored hash; the entry of one host and port matches no other host name
\* and no other port.
C15_HashedMatchesOwnLookup ==
    applied.fn = "check_hashed_host" /\ applied.done =>
        LET lookup == IF applied.port = 22 THEN applied.hostname
                      ELSE Bracketed(applied.hostname, applied.port)
            parts == split(applied.pattern, "|")
        IN  /\ applied.result <=>
                  /\ Len(parts) = 4 /\ parts[1] = <<>> /\ parts[2] = <<"1">>
                  /\ base64_ok(parts[3])
                  /\ parts[4] = hmac_base64(parts[3], lookup)
            /\ \A salt \in Salts, h \in Hostnames, q \in SshPorts :
                  base64_ok(salt) /\ applied.pattern = HashedField(salt, salt, h, q)
                      => (applied.result <=> applied.hostname = h /\ applied.port = q)

\* Witnesses of C15: the entry of host h on port 7 matches that lookup.
C15_HashedPortEntryMatches ==
    /\ applied.fn = "check_hashed_host" /\ applied.done
    /\ applied.hostname = <<"h">> /\ applied.port = 7
    /\ applied.pattern = HashedField(<<"t">>, <<"t">>, <<"h">>, 7)
    /\ applied.result
\* ----------------------------------------------------------- allocation
\* get_or_create_tunnel has allocated a port and goes on to create_tunnel.
Allocates(p) == pc[p] = "idle" /\ pc'[p] = "ct_connect"

\* C16: the port allocate returns is not bound by another process at that
\* moment, also when the name already owns the port from an earlier attempt.
C16_AllocatedPortNotBoundOutside ==
    [][\A p \in Procs : Allocates(p) => lport'[p] \notin external]_vars

\* get_or_create_tunnel(n) reaches allocate in this step: the connection is
\* tunnelled and neither cached nor behind a recorded tunnel.
AllocateCall(p, n) ==
    /\ pc[p] = "idle"
    /\ n \notin DOMAIN active_connections
    /\ n \notin DOMAIN tunnels
    /\ Config[n].ssh_tunnel
    /\ ConnectCall(p, n)

\* The ports of the range that the table does not track and that nobody,
\* this process included, has bound on the loopback interface.
Unused ==
    {q \in TUNNEL_PORT_START..TUNNEL_PORT_END :
        /\ q \notin DOMAIN allocated
        /\ q \notin external \cup closing
        /\ \A i \in DOMAIN tasks : tasks[i].st = "running" => tasks[i].port # q}

\* C17: for a name that owns no port, allocate enters and returns the lowest
\* port of 7001..7020 that is neither tracked nor bound; for a name that owns
\* a port it returns that port and leaves the table as it was.
C17_LowestFreeOrOwned ==
    [][\A p \in Procs, n \in PortNames :
          AllocateCall(p, n) =>
              IF \E q \in DOMAIN allocated : allocated[q] = n
              THEN /\ allocated' = allocated
                   /\ pc'[p] = "ct_connect" => allocated[lport'[p]] = n
              ELSE Unused # {} =>
                   /\ allocated' = Insert(allocated, Min(Unused), n)
                   /\ pc'[p] = "ct_connect" => lport'[p] = Min(Unused)]_vars

\* Witness of C17: with 7001 bound by another process, the first tunnel of
\* the manager was given 7002.
C17_SkippedBoundPort ==
    /\ external = {TUNNEL_PORT_START}
    /\ DOMAIN allocated = {TUNNEL_PORT_START + 1}
    /\ pc[1] = "ct_connect" /\ lport[1] = TUNNEL_PORT_START + 1

\* C18: when every port of the range is tracked for another name or bound,
\* allocate for a name that owns no port fails and leaves the table as it
\* was, and get_or_create_tunnel returns the error at once: no SSH dial, no
\* tunnel record.
C18_ExhaustedRangeFails ==
    [][\A p \in Procs, n \in PortNames :
          /\ Unused = {}
          /\ \A q \in DOMAIN allocated : allocated[q] # n
          /\ AllocateCall(p, n)
          => /\ allocated' = allocated
             /\ tunnels' = tunnels /\ tasks' = tasks
             /\ pc'[p] = "idle"
             /\ last' = [op |-> "connect", ok |-> FALSE, val |-> 0]]_vars

\* Witness of C18: "a" is connected through the only port other processes
\* left, and the connect of "b", which owns no port, has just failed.
C18_NoPortLeft ==
    /\ Unused = {}
    /\ "a" \in DOMAIN active_connections
    /\ \A q \in DOMAIN allocated : allocated[q] # "b"
    /\ last = [op |-> "connect", ok |-> FALSE, val |-> 0]
    /\ \A p \in Procs : pc[p] = "idle"

\* C19: deallocate removes the entry of its port and no other (a close that
\* drops the tunnel of n leaves every other entry of the table), and the
\* port is handed out again: a name that owns no port is given a port that
\* was deallocated from another name when that port is the lowest one
\* neither tracked nor bound.
C19_DeallocatedPortIsReused ==
    [][\A p \in Procs, n \in PortNames :
          /\ n \in DOMAIN tunnels /\ n \notin DOMAIN tunnels' /\ CloseConnection(p, n)
                => allocated' = [q \in DOMAIN allocated \ {tunnels[n].local_port}
                                   |-> allocated[q]]
          /\ \A q \in DOMAIN freed.gone :
                /\ freed.gone[q] # n
                /\ \A r \in DOMAIN allocated : allocated[r] # n
                /\ Unused # {} /\ q = Min(Unused)
                /\ AllocateCall(p, n)
                => allocated' = Insert(allocated, q, n)]_vars

\* Witness of C19: "b" has its tunnel on the port that the last close
\* deallocated from "a".
C19_ReusedPort ==
    /\ "b" \in DOMAIN tunnels
    /\ tunnels["b"].local_port \in DOMAIN freed.gone
    /\ freed.gone[tunnels["b"].local_port] = "a"
    /\ allocated[tunnels["b"].local_port] = "b"

\* The table maps ports of the range to names, no name twice.
OneToOne(alloc) ==
    /\ DOMAIN alloc \subseteq TUNNEL_PORT_START..TUNNEL_PORT_END
    /\ \A q \in DOMAIN alloc, r \in DOMAIN alloc : alloc[q] = alloc[r] => q = r

\* C20: the port table is a partial one-to-one mapping from the ports of
\* 7001..7020 to names, and a port enters it only in an allocate call, for
\* the name of that call, when nobody had the port bound.
C20_TableOneToOne ==
    [][/\ OneToOne(allocated) /\ OneToOne(allocated')
       /\ \A q \in DOMAIN allocated' \ DOMAIN allocated :
             /\ q \in Unused
             /\ \E p \in Procs, n \in PortNames :
                   AllocateCall(p, n) /\ allocated'[q] = n]_vars

\* Witness of C20: two names own a port each, above the one another process
\* has bound.
C20_TwoOwners ==
    /\ external = {TUNNEL_PORT_START}
    /\ DOMAIN allocated = {TUNNEL_PORT_START + 1, TUNNEL_PORT_START + 2}
    /\ allocated[TUNNEL_PORT_START + 1] # allocated[TUNNEL_PORT_START + 2]
\* ------------------------------------------------------ tunnel idempotence
\* C21: get_or_create_tunnel for a name that has a tunnel record returns the
\* record's local port and leaves the tunnel table, the port table and the
\* accept loops as they were; the call it serves never dials SSH.
C21_ExistingTunnelReturned ==
    [][\A p \in Procs :
          /\ \A n \in DOMAIN tunnels :
                n \notin DOMAIN active_connections /\ Lock(p) /\ ConnectCall(p, n)
                => /\ pc'[p] = "pg_dial" /\ lport'[p] = tunnels[n].local_port
                   /\ tunnels' = tunnels /\ allocated' = allocated
                   /\ tasks' = tasks /\ closing' = closing
          /\ pre[p].tun /\ pc[p] # "idle"
                => /\ pc'[p] \in {"pg_dial", "idle"}
                   /\ tunnels' = tunnels /\ allocated' = allocated]_vars

\* Witness of C21: a call for "a", whose tunnel outlived its database
\* session, waits for the database dial on the tunnel's port.
C21_TunnelFound ==
    \E p \in Procs :
        /\ pc[p] = "pg_dial" /\ arg[p] = "a"
        /\ pre[p].tun /\ ~pre[p].conn
        /\ lport[p] = tunnels["a"].local_port
\* ------------------------------------------------------- comment stripping
\* C22: stripping the stripped text changes nothing.
C22_StripIdempotent ==
    applied.fn = "strip_sql_comments" /\ applied.passes = 2 =>
        applied.twice = applied.once
\* ------------------------------------------------------- query execution
\* C23: execute_query returns success whatever happens (a name that is not
\* active, an unreadable query file, a failed query, a failed write of the
\* results); last.ok is the Result the call hands to execute_query_ffi.
C23_ExecuteNeverFails ==
    last.op = "query" => last.ok

\* C24: every end of the execution of a non-empty query, rows as well as
\* error, has written a payload, and the payload holds the SQL that was sent
\* to the server.
C24_PayloadHoldsSentSql ==
    [][\A p \in Procs :
          pc[p] = "query" /\ pc'[p] = "idle"
          => written'.ok /\ written'.sql = query[p].actual]_vars

\* The SQL each shorthand token of the catalogue stands for.
ExpectedSql(token) ==
    CASE token = <<"\\", "d">> -> <<"SELECT", "tables">>
      [] token = <<"\\", "d", "t", " ", "a">> -> <<"SELECT", "tables", "LIKE", "a">>
      [] token = <<"\\", "d", " ", "a">> -> <<"SELECT", "columns", "LIKE", "a">>
      [] token = <<"\\", "l">> -> <<"SELECT", "databases">>

\* out is text without its outer whitespace.
OuterTrimmed(text, out) ==
    \E i, j \in 1..Len(text) :
        /\ out = SubSeq(text, i, j)
        /\ ~IsSpace(text[i]) /\ ~IsSpace(text[j])
        /\ \A k \in 1..Len(text) : k < i \/ k > j => IsSpace(text[k])

\* C25: a pending text made of -- and /* */ comments around one shorthand
\* token is executed as the SQL generated for the token; a text that is not a
\* shorthand is sent as read, comments included, less its outer whitespace.
C25_DetectStrippedSendOriginal ==
    \A p \in Procs :
        pc[p] = "query"
        => /\ \A lead \in Leads, token \in Tokens, trail \in Trails :
                 query[p].read = lead \o token \o trail
                 => query[p].actual = ExpectedSql(token)
           /\ query[p].read \in Literals
                 => OuterTrimmed(query[p].read, query[p].actual)

C25_TokenBetweenComments ==
    \E p \in Procs :
        /\ pc[p] = "query"
        /\ query[p].read = <<"-", "-", "c", "\n", "\\", "d", "t", " ", "a", "/", "*", "c", "*", "/">>
        /\ query[p].actual = <<"SELECT", "tables", "LIKE", "a">>

\* -------------------------------------------------------------- serialization
\* The callers that are between the cache check of get_or_create_connection
\* and its return, an SSH dial or a database dial in flight.
Connecting == {p \in Procs : pc[p] \in {"ct_connect", "ct_auth", "ct_bind", "pg_dial"}}

\* C26: at most one get_or_create_connection is between its cache check and
\* its cache insert, whatever the names; a connect, a close_connection or a
\* close_all begins only while no other call is inside the cache, so these
\* operations follow one another and a request made while another name is
\* connecting begins its check after that attempt has finished.
C26_ConnectsSerialized ==
    [][/\ Cardinality(Connecting') <= 1
       /\ \A p \in Connecting' : connLock' = p
       /\ \A p \in Procs, n \in Names :
             (\E q \in Procs \ {p} : pc[q] # "idle")
             => ~(ConnectCall(p, n) \/ CloseConnection(p, n) \/ CloseAll(p))]_vars

\* Caller 2 dials the database of "b" after caller 1's connect of "a" has
\* finished and cached its session.
C26_SecondNameAfterFirst ==
    /\ pc[2] = "pg_dial" /\ arg[2] = "b"
    /\ pc[1] = "idle"
    /\ "a" \in DOMAIN active_connections
    /\ "b" \notin DOMAIN active_connections

\* ------------------------------------------------------- forwarding failures
\* C27: when a per-connection task ends on a channel-open error or when its
\* copy ends, with an error or without, the tunnel records and the tracked
\* ports stay, the accept loops stay as they are and the loop of a running
\* tunnel can accept again, every other forwarding task stays as it is, and
\* no caller sees anything of it.
C27_ForwardingFailureContained ==
    [][\A j \in FwdIds :
          (FwdOpen(j) /\ j \notin DOMAIN fwd') \/ FwdCopyEnd(j)
          => /\ tunnels' = tunnels /\ allocated' = allocated
             /\ active_connections' = active_connections
             /\ tasks' = tasks
             /\ \A i \in DOMAIN tasks :
                   tasks[i].st = "running"
                   => tasks'[i].st = "running" /\ FwdIds \ DOMAIN fwd' # {}
             /\ \A k \in DOMAIN fwd \ {j} : k \in DOMAIN fwd' /\ fwd'[k] = fwd[k]
             /\ last' = last /\ pc' = pc /\ connLock' = connLock]_vars

\* A channel open has failed; both tunnels are recorded with their accept
\* loops running, and a forwarding task of each is copying.
C27_FailedBesideOthers ==
    /\ fwdError = "channel"
    /\ \A n \in ChannelNames :
          /\ n \in DOMAIN tunnels
          /\ tasks[tunnels[n].task].st = "running"
          /\ \E k \in DOMAIN fwd : fwd[k].parent = tunnels[n].task /\ fwd[k].st = "copying"

\* ------------------------------------------------------------------ isolation
\* The step in which caller p's execute_query(n) ends with a failure: returned
\* to the caller, or written as the error payload.
QueryFails(p, n) ==
    /\ pc'[p] = "idle"
    /\ last'.op = "query"
    /\ \/ pc[p] = "idle" /\ ~last'.ok /\ Execute(p, n, PairTexts)
       \/ pc[p] = "query" /\ arg[p] = n /\ (~last'.ok \/ written'.kind = "error")
                           /\ ExecDone(p)

\* C28: a get_or_create_connection(A) that fails, a query on A that fails and
\* a close_connection(A) leave the cache entry, the tunnel record and the
\* tracked ports of every other name B as they were.
C28_OtherNamesUntouched ==
    [][\A p \in Procs, A \in Names :
          \/ ConnectFails(p, A)
          \/ QueryFails(p, A)
          \/ pc[p] = "idle" /\ last'.op = "close" /\ CloseConnection(p, A)
          => \A B \in Names \ {A} :
                /\ B \in DOMAIN active_connections' <=> B \in DOMAIN active_connections
                /\ B \in DOMAIN active_connections
                      => active_connections'[B] = active_connections[B]
                /\ B \in DOMAIN tunnels' <=> B \in DOMAIN tunnels
                /\ B \in DOMAIN tunnels => tunnels'[B] = tunnels[B]
                /\ OwnedPorts(allocated', B) = OwnedPorts(allocated, B)]_vars

\* "a" has just been closed, its tunnel and port gone, while "b" is connected
\* through its tunnel.
C28_ClosedBesideActive ==
    /\ last = [op |-> "close", ok |-> TRUE, val |-> 1]
    /\ "a" \notin DOMAIN active_connections /\ "a" \notin DOMAIN tunnels
    /\ "b" \in DOMAIN active_connections /\ "b" \in DOMAIN tunnels
    /\ OwnedPorts(allocated, "b") = {tunnels["b"].local_port}

\* The forwarding tasks of the session of accept loop i that are inside
\* channel_open_direct_tcpip.
Opening(i) == {k \in DOMAIN fwd : fwd[k].parent = i /\ fwd[k].st = "opening"}

\* C29: on every SSH session at most one forwarding task is inside
\* channel_open_direct_tcpip; the tasks that copy hold no lock, so a task that
\* waits for the session can take it whenever no channel open is under way,
\* however many tasks of the session are copying.
C29_ChannelOpenExclusive ==
    /\ \A i \in TaskIds : Cardinality(Opening(i)) <= 1
    /\ \A j \in DOMAIN fwd :
          fwd[j].st = "lock_wait" /\ Opening(fwd[j].parent) = {}
          => ENABLED FwdLock(j)

\* On one session a channel open is under way while another task copies.
C29_OpenWhileCopying ==
    \E j, k \in DOMAIN fwd :
        /\ fwd[j].parent = fwd[k].parent
        /\ fwd[j].st = "opening"
        /\ fwd[k].st = "copying"

\* ------------------------------------------------------------ test_connection
\* C30: test_connection(n) queries only after its get_or_create_connection
\* has returned with n in the cache; when it returns success n is in the
\* cache; when the query fails the caller gets an error and the cache entry
\* of n stays as it was.
C30_TestConnectsFirst ==
    [][\A p \in Procs :
          /\ pc'[p] = "test_lock" /\ pc[p] # "test_lock"
                => arg[p] \in DOMAIN active_connections'
          /\ pc'[p] = "test_query" => arg[p] \in DOMAIN active_connections
          /\ TestDone(p)
                => /\ last'.op = "test"
                   /\ active_connections' = active_connections
                   /\ arg[p] \in DOMAIN active_connections'
          /\ Testing(p) /\ pc'[p] = "idle" /\ ~TestDone(p)
                => last'.op = "test" /\ ~last'.ok]_vars

\* test_connection has connected "a" itself, its query has failed and the
\* error is returned; "a" is still cached.
C30_QueryFailedEntryKept ==
    /\ last = [op |-> "test", ok |-> FALSE, val |-> 0]
    /\ "a" \in DOMAIN active_connections
    /\ \A p \in Procs : pc[p] = "idle"
    /\ dbDials["a"] = 1

\* ------------------------------------------------------------ tunnel creation
\* C31: the steps of a tunnel's creation follow one another, each after the
\* success of the one before: the port is allocated and the key loaded before
\* the SSH connect, the connect comes before the authentication, the listener
\* is bound only after the server accepted the key, and the record is inserted
\* only with the listener bound and its accept loop spawned.
C31_TunnelStepsInOrder ==
    [][/\ \A p \in Procs :
             /\ pc'[p] = "ct_connect" /\ pc[p] # "ct_connect"
                   => /\ pc[p] \in {"idle", "test_call"}
                      /\ lport'[p] \in DOMAIN allocated'
                      /\ allocated'[lport'[p]] = arg'[p]
             /\ pc'[p] = "ct_auth" /\ pc[p] # "ct_auth" => pc[p] = "ct_connect"
             /\ pc'[p] = "ct_bind" /\ pc[p] # "ct_bind" => pc[p] = "ct_auth"
       /\ \A n \in Names :
             n \notin DOMAIN tunnels /\ n \in DOMAIN tunnels'
             => \E p \in Procs :
                   /\ pc[p] = "ct_bind" /\ arg[p] = n
                   /\ auth[p] = "accepted"
                   /\ tunnels'[n].task \notin DOMAIN tasks
                   /\ tasks'[tunnels'[n].task] = [st |-> "running", port |-> lport[p]]]_vars

\* ----------------------------------------------------- trust store contents
\* The lines of the model that are no entry: blank, comment, fewer than three
\* fields, a hashed host that is not |1|salt|hash or whose salt does not
\* decode, key material that is not base64 or not a key.
MalformedLines ==
    {LineBlank, LineComment, LineTwoFields, LineShortHash, LineBadSalt, LineBadKey,
     LineNotAKey}

\* The lines of a store that are entries, in their order.
RECURSIVE WellFormed(_)
WellFormed(ls) ==
    IF ls = <<>> THEN <<>>
    ELSE (IF Head(ls) \in MalformedLines THEN <<>> ELSE <<Head(ls)>>)
             \o WellFormed(Tail(ls))

\* C32: a store that is read gives Ok(true) or Ok(false), never Err, and
\* gives what the store without its malformed lines gives: such a line
\* neither ends the scan nor vouches for a key, wherever it stands.
C32_MalformedLinesSkipped ==
    verify.result # "none" /\ verify.file = "text" =>
        LET lookup == host_pattern(verify.hostname, verify.port)
            entries == WellFormed(lines(verify.contents))
        IN  verify.result =
                IF \E i \in 1..Len(entries) : Vouches(entries[i], lookup, verify.key)
                THEN "true" ELSE "false"

\* The key is verified by the entry that follows a hashed host whose salt
\* does not decode.
C32_EntryAfterMalformed ==
    /\ verify.result = "true"
    /\ verify.file = "text"
    /\ verify.contents = StoreText(<<LineBadSalt, LinePlainK>>)
    /\ verify.hostname = <<"h">>
    /\ verify.port = 22
    /\ verify.key = "K"

\* C33: the line that makes verification succeed names the algorithm of the
\* presented key in its key-type field; a line of the host with another
\* key type is a miss, whatever its key material decodes to.
C33_KeyTypeMismatchIsMiss ==
    verify.result = "true" =>
        LET lookup == host_pattern(verify.hostname, verify.port)
            ls == lines(verify.contents)
        IN  \E i \in 1..Len(ls) :
                /\ Vouches(ls[i], lookup, verify.key)
                /\ split_whitespace(ls[i])[2] = key_name(verify.key)

\* ---------------------------------------------------------- empty pending SQL
\* C34: when the pending text of an active connection is empty or blank,
\* execute_query sends nothing to the server, writes the "No SQL query found"
\* notice, returns success and leaves the cache as it was.  (The step is the
\* one that hands the notice to write_results.)
C34_BlankInputIsSoft ==
    [][\A p \in Procs, n \in Names :
          /\ pc[p] = "idle"
          /\ n \in DOMAIN active_connections
          /\ written' # written
          /\ Execute(p, n, Blanks)
          => /\ pc'[p] = "idle"
             /\ written' = [kind |-> "no_query", sql |-> <<>>, ok |-> TRUE]
             /\ last' = [op |-> "query", ok |-> TRUE, val |-> 0]
             /\ active_connections' = active_connections]_vars

\* ------------------------------------------------------------------- C35
\* A letter of a keyword in lower case.
Lower(c) == IF c = "H" THEN "h" ELSE c
\* A line that opens a Host block, the keyword in any case as ssh_config(5)
\* reads it, and the alias it names.
IsHostLine(line) ==
    LET parts == splitn(trim(line))
    IN  /\ Len(parts) = 2
        /\ [i \in 1..Len(parts[1]) |-> Lower(parts[1][i])] = <<"h", "o", "s", "t">>
AliasOf(line) == trim(splitn(trim(line))[2])
HasBlock(ls, t) == \E i \in 1..Len(ls) : IsHostLine(ls[i]) /\ AliasOf(ls[i]) = t
BlockStart(ls, t) ==
    CHOOSE i \in 1..Len(ls) :
        /\ IsHostLine(ls[i]) /\ AliasOf(ls[i]) = t
        /\ \A k \in 1..(i - 1) : ~(IsHostLine(ls[k]) /\ AliasOf(ls[k]) = t)
\* The values the block of alias t gives to one of the keywords keys.
BlockValues(ls, t, keys) ==
    LET i == BlockStart(ls, t)
    IN  {trim(splitn(trim(ls[k]))[2]) :
            k \in {k \in (i + 1)..Len(ls) :
                     /\ \A m \in (i + 1)..k : ~IsHostLine(ls[m])
                     /\ Len(splitn(trim(ls[k]))) = 2
                     /\ splitn(trim(ls[k]))[1] \in keys}}

\* C35: a lookup by alias fails when the file has no Host block of that alias,
\* and a lookup that succeeds returns a host name, port, user and identity
\* file that the alias's own block gives, the port being 22 and the user and
\* identity file absent when the block does not give them.
C35_SettingsFromOwnBlock ==
    (applied.fn = "parse_host_from_config" /\ applied.done) =>
        LET r == applied.result
            ls == applied.file
            t == applied.target
        IN  /\ ~HasBlock(ls, t) => ~r.ok
            /\ r.ok =>
                /\ HasBlock(ls, t)
                /\ r.hostname \in BlockValues(ls, t, {KeyHostName, KeyHostname})
                /\ IF BlockValues(ls, t, {KeyPort}) = {} THEN r.port = 22
                   ELSE PortText(r.port) \in BlockValues(ls, t, {KeyPort})
                /\ IF BlockValues(ls, t, {KeyUser}) = {} THEN r.user = <<>>
                   ELSE r.user # <<>> /\ r.user[1] \in BlockValues(ls, t, {KeyUser})
                /\ IF BlockValues(ls, t, {KeyIdentityFile}) = {} THEN r.identity_file = <<>>
                   ELSE /\ r.identity_file # <<>>
                        /\ r.identity_file[1] \in
                             {expand_tilde(v) : v \in BlockValues(ls, t, {KeyIdentityFile})}

\* ------------------------------------------------------------------ locks
\* The lock steps of an operation, in the order its code takes them: a lock
\* acquired ("acq"), a guard dropped ("rel"), an external I/O call awaited
\* ("io").
Acq(l) == <<[do |-> "acq", lock |-> l]>>
Rel(l) == <<[do |-> "rel", lock |-> l]>>
Io == <<[do |-> "io", lock |-> "none"]>>

\* TunnelManager::close_all with the port table locked before the tunnel
\* table.
tunnel_close_all_locks_swapped ==
    Acq("port_allocator") \o Acq("tunnels") \o Rel("tunnels") \o Rel("port_allocator")

\* TunnelManager::get_or_create_tunnel returning Ok: the record exists, or a
\* port is allocated under the port table lock, the guard is dropped,
\* create_tunnel is awaited and the record inserted.
get_or_create_tunnel_ok_locks ==
    {Acq("tunnels") \o Rel("tunnels"),
     Acq("tunnels") \o Acq("port_allocator") \o Rel("port_allocator") \o Io
        \o Rel("tunnels")}
\* ... returning Err: allocate fails, or create_tunnel does.
get_or_create_tunnel_err_locks ==
    {Acq("tunnels") \o Acq("port_allocator") \o Rel("port_allocator") \o Rel("tunnels"),
     Acq("tunnels") \o Acq("port_allocator") \o Rel("port_allocator") \o Io
        \o Rel("tunnels")}
\* TunnelManager::close_tunnel: no record, or the port deallocated.
close_tunnel_locks ==
    {Acq("tunnels") \o Rel("tunnels"),
     Acq("tunnels") \o Acq("port_allocator") \o Rel("port_allocator") \o Rel("tunnels")}
\* TunnelManager::close_all.
tunnel_close_all_locks ==
    Acq("tunnels") \o Acq("port_allocator") \o Rel("port_allocator") \o Rel("tunnels")

\* ConnectionManager::get_or_create_connection returning Ok: the cached
\* entry, a direct dial, or a tunnel and a dial through it.
get_or_create_connection_ok_locks ==
    {Acq("active_connections") \o Rel("active_connections"),
     Acq("active_connections") \o Io \o Rel("active_connections")}
    \cup {Acq("active_connections") \o t \o Io \o Rel("active_connections") :
            t \in get_or_create_tunnel_ok_locks}
\* ... returning Err: no descriptor or engine, a failed tunnel, a failed dial.
get_or_create_connection_err_locks ==
    {Acq("active_connections") \o Rel("active_connections"),
     Acq("active_connections") \o Io \o Rel("active_connections")}
    \cup {Acq("active_connections") \o t \o Rel("active_connections") :
            t \in get_or_create_tunnel_err_locks}
    \cup {Acq("active_connections") \o t \o Io \o Rel("active_connections") :
            t \in get_or_create_tunnel_ok_locks}
\* ConnectionManager::close_connection: no entry or a direct one, or a
\* tunnelled one.
close_connection_locks ==
    {Acq("active_connections") \o Rel("active_connections")}
    \cup {Acq("active_connections") \o t \o Rel("active_connections") :
            t \in close_tunnel_locks}
\* ConnectionManager::close_all.
close_all_locks ==
    {Acq("active_connections") \o tunnel_close_all_locks \o Rel("active_connections")}
\* ConnectionManager::test_connection: the connect, then the cache locked
\* again for the entry and the query.
test_connection_locks ==
    get_or_create_connection_err_locks
    \cup {c \o Acq("active_connections") \o q \o Rel("active_connections") :
            c \in get_or_create_connection_ok_locks, q \in {<<>>, Io}}
\* ConnectionManager::execute_query and get_connection_info.
execute_query_locks ==
    {Acq("active_connections") \o q \o Rel("active_connections") : q \in {<<>>, Io}}
get_connection_info_locks == {Acq("active_connections") \o Rel("active_connections")}

\* The operations of a ConnectionManager, and those of the Dadbod facade:
\* the manager locked first and held to the end.
ManagerLocks ==
    get_or_create_connection_ok_locks \cup get_or_create_connection_err_locks
    \cup close_connection_locks \cup close_all_locks \cup test_connection_locks
    \cup execute_query_locks \cup get_connection_info_locks
DadbodLocks ==
    {Acq("manager") \o Rel("manager")}
    \cup {Acq("manager") \o m \o Rel("manager") : m \in ManagerLocks}
\* A per-connection forwarding task: the channel opened under the session
\* lock, the guard dropped before the copy.
ForwardLocks ==
    {Acq("ssh_session") \o Io \o Rel("ssh_session") \o Io,
     Acq("ssh_session") \o Io \o Rel("ssh_session")}

\* The paths of a set grouped by their next step: the code commits to a
\* branch when it has looked at the state the branch depends on.  A path that
\* has ended leaves the thread with nothing to do.
Branches(paths) ==
    {{} : q \in {q \in paths : q = <<>>}}
    \cup {{q \in paths : q # <<>> /\ Head(q) = Head(r)} : r \in {r \in paths : r # <<>>}}
\* The step a thread takes next, and the paths that remain after it.
NextStep(t) == Head(CHOOSE q \in at[t] : TRUE)
Rest(t) == {Tail(q) : q \in at[t]}

\* A caller starts an operation, through the facade or on the manager; a
\* forwarding task is spawned.
Enter(t) ==
    /\ at[t] = {}
    /\ at' \in {[at EXCEPT ![t] = b] :
                  b \in Branches(IF t \in Procs THEN DadbodLocks \cup ManagerLocks
                                 ELSE ForwardLocks)}
    /\ UNCHANGED <<tables, env, caller, hist, query, owner, workspace_dir>>

\* lock().await returns: the mutex is free and the thread takes it.
Acquire(t) ==
    /\ at[t] # {}
    /\ NextStep(t).do = "acq"
    /\ owner[NextStep(t).lock] = NoProc
    /\ owner' = [owner EXCEPT ![NextStep(t).lock] = t]
    /\ at' \in {[at EXCEPT ![t] = b] : b \in Branches(Rest(t))}
    /\ UNCHANGED <<tables, env, caller, hist, query, workspace_dir>>

\* A guard is dropped.
Release(t) ==
    /\ at[t] # {}
    /\ NextStep(t).do = "rel"
    /\ owner' = [owner EXCEPT ![NextStep(t).lock] = NoProc]
    /\ at' \in {[at EXCEPT ![t] = b] : b \in Branches(Rest(t))}
    /\ UNCHANGED <<tables, env, caller, hist, query, workspace_dir>>

\* An awaited external call returns.
IoReturn(t) ==
    /\ at[t] # {}
    /\ NextStep(t).do = "io"
    /\ at' \in {[at EXCEPT ![t] = b] : b \in Branches(Rest(t))}
    /\ UNCHANGED <<tables, env, caller, hist, query, owner, workspace_dir>>

Advance(t) == Acquire(t) \/ Release(t) \/ IoReturn(t)

NextLocks == \E t \in Threads : Enter(t) \/ Acquire(t) \/ Release(t) \/ IoReturn(t)

\* The tokio mutex serves its waiters in turn, and the runtime polls every
\* task that can run.
SpecLocks ==
    /\ Init
    /\ [][NextLocks]_vars
    /\ \A t \in Threads : SF_vars(Acquire(t)) /\ WF_vars(Release(t) \/ IoReturn(t))

\* ------------------------------------------------------------------- C36
Rank == [manager |-> 1, active_connections |-> 2, tunnels |-> 3, port_allocator |-> 4,
         ssh_session |-> 5]
Holds(t) == {l \in Locks : owner[l] = t}

\* C36: a thread acquires a lock only after the locks it already holds in the
\* order manager, active_connections, tunnels, port_allocator; a caller never
\* holds a session lock and a forwarding task holds nothing else; whenever an
\* operation is in progress some thread can take its next step; and every
\* operation that has started finishes.
C36_LocksOrderedAndLive ==
    /\ [][\A t \in Threads : \A l \in Holds(t)' \ Holds(t) :
             \A h \in Holds(t) : Rank[h] < Rank[l]]_vars
    /\ [](\A t \in Procs : "ssh_session" \notin Holds(t))
    /\ [](\A t \in Forwarders : Holds(t) \subseteq {"ssh_session"})
    /\ []((\E t \in Threads : at[t] # {}) => \E t \in Threads : ENABLED Advance(t))
    /\ \A t \in Threads : (at[t] # {}) ~> (at[t] = {})

\* One caller holds the four locks of the managers while the other waits for
\* the facade lock, and one forwarding task holds the session lock while
\* another waits for it.
C36_AllLocksHeldOthersWaiting ==
    /\ \E t \in Procs : Holds(t) = {"manager", "active_connections", "tunnels", "port_allocator"}
    /\ \E t \in Procs : at[t] # {} /\ NextStep(t) = Acq("manager")[1]
    /\ \E t \in Forwarders : Holds(t) = {"ssh_session"}
    /\ \E t \in Forwarders : at[t] # {} /\ NextStep(t) = Acq("ssh_session")[1]

\* ------------------------------------------------------------------- C37
\* C37: through the facade at most one operation is in progress, and a
\* test_connection that has connected finds its entry when it locks the cache
\* again: it never fails with "Connection not found after creation".
C37_FacadeSerializes ==
    /\ Cardinality({p \in Procs : pc[p] # "idle"}) <= 1
    /\ \A p \in Procs : pc[p] = "test_lock" => arg[p] \in DOMAIN active_connections

\* A test_connection is between its two steps, the cache unlocked, after a
\* close returned; the other caller's close of the same name has to wait for
\* the facade, where on the manager it could run.
C37_CloseWaitsForTest ==
    \E p \in Procs :
        /\ pc[p] = "test_lock"
        /\ connLock = NoProc
        /\ last.op = "close"
        /\ \E q \in Procs \ {p} :
             /\ ~ENABLED Dadbod_close_connection(q, arg[p])
             /\ ENABLED CloseConnection(q, arg[p])

\* ------------------------------------------------------------------- C38
\* C38: a close_connection that leaves other connections active leaves their
\* pending-SQL files and the results file in place, so that execute_query can
\* read the one and write the other.
C38_OtherWorkspacesKept ==
    [][\A a \in PairNames :
         (/\ a \in DOMAIN active_connections
          /\ DOMAIN active_connections' = DOMAIN active_connections \ {a}
          /\ CloseConnection(1, a))
         => \A b \in DOMAIN active_connections' :
              /\ {sql_file(b), dbout_file} \subseteq workspace_dir'.files
              /\ TRUE \in read_query(workspace_dir', b)
              /\ TRUE \in write_results(workspace_dir')]_vars

\* ------------------------------------------------------------------- C39
\* C39: a connect that finds no cached entry dials again, and when it dials
\* through the tunnel record an earlier, failed connect left, the dial can
\* succeed: nothing that the failure left behind stands in its way.
C39_RetryCanSucceed ==
    [][\A p \in Procs :
         (pc[p] = "idle" /\ pc'[p] = "pg_dial")
         => (TRUE \in pg_connect(arg[p], lport[p]))']_vars

====
